---- MODULE Spec2Model ----
(***************************************************************************)
(* A model of the synth-experiment-rust audio engine.                      *)
(*                                                                         *)
(* Part I   (SpecPlayer) the cpal sample player: the control thread's      *)
(*          play_stream / play_sample and the audio device callback,       *)
(*          interleaved at the granularity of their shared accesses        *)
(*          (the mpsc channel and the RwLock-guarded sink_cursor).         *)
(* Part II  (SpecGraph)  the `language` crate's signal graph: the shared   *)
(*          memo BufferedSignal and the modules sampled through it.        *)
(* Part III (SpecHandle) the `synth-language` crate's BufferedSignal,      *)
(*          whose memo fields live in each handle.                         *)
(***************************************************************************)
EXTENDS Integers, Sequences, FiniteSets, TLC

VARIABLES
    \* ---- Part I: cpal-sample-player ----
    channel,          \* mpsc channel: samples sent and not yet received
    sink_cursor,      \* Arc<RwLock<u64>>: written by the callback
    source_cursor,    \* SamplePlayer.source_cursor
    buffer_padding,   \* SamplePlayer.buffer_padding
    channels,         \* core.config.channels
    ctl_pc,           \* control thread: "idle" | "loop" (inside play_stream)
    loop_remaining,   \* iterations left of play_stream's for loop
    sink_read,        \* the sink_cursor value samples_behind read in this call
    source_at_call,   \* source_cursor when this play_stream call started
    cb_pc,            \* callback: "idle" | "recv" | "write" (lock held unless idle)
    cb_frame,         \* index of the chunk the callback's for loop is at
    data,             \* the callback's output buffer, one entry per frame
    input,            \* the sample try_recv returned for the current frame
    produced,         \* history: samples returned by the stream closure
    written,          \* history: samples written to output frames
    taken,            \* history: number of samples received from the channel
    receiver_alive,   \* the callback closure (owner of the Receiver) exists
    send_errors,      \* "failed to send data to cpal thread" lines logged
    lost,             \* history: samples whose send returned Err
    \* ---- Part II: language crate signal graph ----
    memo,             \* node -> BufferedSignalUnshared {buffered_sample, next_sample_index}
    st,               \* node -> the private state of the node's SignalTrait object
    sample_index,     \* SignalPlayer.sample_index: the index of the next tick
    obs,              \* history of the sampling calls (see NewObs)
    \* ---- Part III: synth-language crate handles ----
    hmemo,            \* handle -> its own {buffered_sample, next_sample_index}
    sst,              \* signal -> the private state of the shared SignalTrait object
    sl_index,         \* SignalPlayer.sample_index: the index of the next tick
    hobs,             \* history of the sampling calls (see NewHandleObs)
    \* ---- Part IV: envelope generators ----
    env_cfg,          \* the values of the generators' constant input signals
    env_lin,          \* the fields of the three linear generators
    env_exp,          \* the fields of adsr_envelope_exp_01::Signal
    env_obs,          \* history: the gate of the last tick, the fields before it
    \* ---- Part V: biquad filters ----
    flt,              \* the filter: its kind and Buffer.entries
    flt_obs,          \* history: ticks, the input and the output of the last
    \* ---- Part VI: weighted_sum ----
    mix,              \* the memo of each weighted signal's weight and signal handle
    mix_index,        \* the index of the next tick
    mix_obs,          \* history: the sources' values and the output of the last tick
    \* ---- Part VII: synth_sequencer ----
    seq_cfg,          \* Props.sequence
    seq,              \* Signal.step_index and Signal.gate_remain_seconds
    seq_obs,          \* history of the sequencer's ticks (see NewSequencer)
    \* ---- Part VIII: oscillator sampled alone ----
    osc_cfg,          \* the values of the waveform and pulse width signals
    osc,              \* oscillator::Signal.state
    osc_obs,          \* history of the oscillator's ticks (see NewOscillator)
    \* ---- Part IX: moving-average low-pass filter ----
    mav,              \* Signal.buffer (VecDeque, front first)
    mav_obs,          \* history: the inputs of all ticks, the last width and output
    \* ---- Part X: state_variable_filter_first_order ----
    svf,              \* the filter's state and the memo of every handle of its Output
    svf_index,        \* the index of the current tick
    svf_obs,          \* history of the current tick: state advances, taps read
    \* ---- Part XI: WrapF64 ----
    wrp,              \* a WrapF64<R>: its range R and its value
    wrp_obs,          \* history: the value it was created from, the operations since
    \* ---- Part XII: clock ----
    clk,              \* clock::Signal.state and the prev_sample of its Trigger
    clk_obs,          \* history: the frequency and the output of every tick
    \* ---- Part XIII: MovingAverageFilter, its loop step by step ----
    maf,              \* the filter: its buffer, and the position and locals of a running sample()
    maf_obs           \* history: the ticks finished, the last divisor

playerVars == <<channel, sink_cursor, source_cursor, buffer_padding, channels,
                ctl_pc, loop_remaining, sink_read, source_at_call, cb_pc,
                cb_frame, data, input, produced, written, taken,
                receiver_alive, send_errors, lost>>

graphVars == <<memo, st, sample_index, obs>>

handleVars == <<hmemo, sst, sl_index, hobs>>

envVars == <<env_cfg, env_lin, env_exp, env_obs>>

fltVars == <<flt, flt_obs>>

mixVars == <<mix, mix_index, mix_obs>>

seqVars == <<seq_cfg, seq, seq_obs>>

oscVars == <<osc_cfg, osc, osc_obs>>

mavVars == <<mav, mav_obs>>

svfVars == <<svf, svf_index, svf_obs>>

wrpVars == <<wrp, wrp_obs>>

clkVars == <<clk, clk_obs>>

mafVars == <<maf, maf_obs>>

moduleVars == <<envVars, fltVars, mixVars, seqVars, oscVars, mavVars,
                svfVars, wrpVars, clkVars, mafVars>>

\* what the actions of one part leave alone
notEnvVars == <<playerVars, graphVars, handleVars, fltVars, mixVars, seqVars,
                oscVars, mavVars, svfVars, wrpVars, clkVars, mafVars>>
notFltVars == <<playerVars, graphVars, handleVars, envVars, mixVars, seqVars,
                oscVars, mavVars, svfVars, wrpVars, clkVars, mafVars>>
notMixVars == <<playerVars, graphVars, handleVars, envVars, fltVars, seqVars,
                oscVars, mavVars, svfVars, wrpVars, clkVars, mafVars>>
notSeqVars == <<playerVars, graphVars, handleVars, envVars, fltVars, mixVars,
                oscVars, mavVars, svfVars, wrpVars, clkVars, mafVars>>
notOscVars == <<playerVars, graphVars, handleVars, envVars, fltVars, mixVars,
                seqVars, mavVars, svfVars, wrpVars, clkVars, mafVars>>
notMavVars == <<playerVars, graphVars, handleVars, envVars, fltVars, mixVars,
                seqVars, oscVars, svfVars, wrpVars, clkVars, mafVars>>
notSvfVars == <<playerVars, graphVars, handleVars, envVars, fltVars, mixVars,
                seqVars, oscVars, mavVars, wrpVars, clkVars, mafVars>>
notWrpVars == <<playerVars, graphVars, handleVars, envVars, fltVars, mixVars,
                seqVars, oscVars, mavVars, svfVars, clkVars, mafVars>>
notClkVars == <<playerVars, graphVars, handleVars, envVars, fltVars, mixVars,
                seqVars, oscVars, mavVars, svfVars, wrpVars, mafVars>>
notMafVars == <<playerVars, graphVars, handleVars, envVars, fltVars, mixVars,
                seqVars, oscVars, mavVars, svfVars, wrpVars, clkVars>>

vars == <<playerVars, graphVars, handleVars, moduleVars>>

(***************************************************************************)
(* Bounds of the model.                                                    *)
(***************************************************************************)
MaxPadding  == 3    \* buffer_padding ranges over 1..MaxPadding
MaxChannels == 2    \* device channel counts 1..MaxChannels
MaxFrames   == 2    \* frames per callback buffer 1..MaxFrames
MaxProduced == 4    \* samples the stream closure returns in one behaviour

SampleValues == {0, 1}      \* values the stream closure may return
None == <<>>                \* Option::None; Some(x) is <<x>>
Some(x) == <<x>>
Stale == None               \* an output slot this callback has not written
PaddingDivisor == 20        \* buffer_padding = sample_rate / 20
SampleRates == {PaddingDivisor * k : k \in 1..MaxPadding}

(***************************************************************************)
(* Part I: cpal-sample-player                                              *)
(***************************************************************************)

\* SamplePlayer::new: an empty channel, both cursors 0, padding from the
\* negotiated sample rate, the channel count from the device configuration.
NewPlayer(sample_rate, n_channels) ==
    /\ channel = <<>>
    /\ sink_cursor = 0
    /\ source_cursor = 0
    /\ buffer_padding = sample_rate \div PaddingDivisor
    /\ channels = n_channels
    /\ ctl_pc = "idle"
    /\ loop_remaining = 0
    /\ sink_read = 0
    /\ source_at_call = 0
    /\ cb_pc = "idle"
    /\ cb_frame = 0
    /\ data = <<>>
    /\ input = 0
    /\ produced = <<>>
    /\ written = <<>>
    /\ taken = 0
    /\ receiver_alive = TRUE
    /\ send_errors = 0
    /\ lost = <<>>

samples_behind_overshoot == (sink_cursor + buffer_padding + 1) - source_cursor

\* SamplePlayer::samples_behind
samples_behind ==
    LET target_source_cursor == sink_cursor + buffer_padding
    IN  target_source_cursor - source_cursor

\* play_stream: the range of the for loop is evaluated once, on entry; the
\* read of sink_cursor needs the lock, which the callback holds while it runs.
\* The subtraction in samples_behind is one of u64: when source_cursor is
\* above the target it panics (overflow checks on) or wraps to 2^64 minus the
\* excess (overflow checks off), a count no behaviour of the model exhausts.
play_stream_begin ==
    /\ ctl_pc = "idle"
    /\ cb_pc = "idle"
    /\ sink_read' = sink_cursor
    /\ source_at_call' = source_cursor
    /\ IF samples_behind >= 0
       THEN /\ ctl_pc' = "loop"
            /\ loop_remaining' = samples_behind \div channels
       ELSE \/ /\ ctl_pc' = "panicked"
               /\ loop_remaining' = 0
            \/ /\ ctl_pc' = "loop"
               /\ loop_remaining' = MaxProduced + 1
    /\ UNCHANGED <<channel, sink_cursor, source_cursor, buffer_padding, channels,
                   cb_pc, cb_frame, data, input, produced, written, taken,
                   receiver_alive,
                   send_errors, lost, graphVars, handleVars,
                   moduleVars>>

play_sample_lifo(sample) ==
    /\ ctl_pc = "loop"
    /\ loop_remaining > 0
    /\ Len(produced) < MaxProduced
    /\ channel' = <<sample>> \o channel
    /\ source_cursor' = source_cursor + 1
    /\ produced' = Append(produced, sample)
    /\ loop_remaining' = loop_remaining - 1
    /\ UNCHANGED <<sink_cursor, buffer_padding, channels, ctl_pc, sink_read,
                   source_at_call, cb_pc, cb_frame, data, input, written, taken,
                   receiver_alive,
                   send_errors, lost, graphVars, handleVars,
                   moduleVars>>

play_sample_return_on_error(sample) ==
    /\ ctl_pc = "loop"
    /\ loop_remaining > 0
    /\ Len(produced) < MaxProduced
    /\ IF receiver_alive
       THEN /\ channel' = Append(channel, sample)
            /\ source_cursor' = source_cursor + 1
            /\ UNCHANGED <<send_errors, lost>>
       ELSE /\ send_errors' = send_errors + 1
            /\ lost' = Append(lost, sample)
            /\ UNCHANGED <<channel, source_cursor>>
    /\ produced' = Append(produced, sample)
    /\ loop_remaining' = loop_remaining - 1
    /\ UNCHANGED <<sink_cursor, buffer_padding, channels, ctl_pc, sink_read,
                   source_at_call, cb_pc, cb_frame, data, input, written, taken,
                   receiver_alive, graphVars, handleVars,
                   moduleVars>>

\* One iteration of play_stream's loop: self.play_sample(stream()).
play_sample(sample) ==
    /\ ctl_pc = "loop"
    /\ loop_remaining > 0
    /\ Len(produced) < MaxProduced
    /\ IF receiver_alive
       THEN /\ channel' = Append(channel, sample)       \* send(sample) is Ok
            /\ UNCHANGED <<send_errors, lost>>
       ELSE /\ send_errors' = send_errors + 1           \* log::error!
            /\ lost' = Append(lost, sample)
            /\ UNCHANGED channel
    /\ source_cursor' = source_cursor + 1
    /\ produced' = Append(produced, sample)
    /\ loop_remaining' = loop_remaining - 1
    /\ UNCHANGED <<sink_cursor, buffer_padding, channels, ctl_pc, sink_read,
                   source_at_call, cb_pc, cb_frame, data, input, written, taken,
                   receiver_alive, graphVars, handleVars,
                   moduleVars>>

\* The caller assigns through buffer_padding_mut, between two calls of
\* play_stream.
buffer_padding_mut(padding) ==
    /\ ctl_pc = "idle"
    /\ buffer_padding' = padding
    /\ UNCHANGED <<channel, sink_cursor, source_cursor, channels, ctl_pc,
                   loop_remaining, sink_read, source_at_call, cb_pc, cb_frame,
                   data, input, produced, written, taken, receiver_alive,
                   send_errors, lost, graphVars, handleVars,
                   moduleVars>>

\* play_stream returns when its loop is exhausted.
play_stream_return ==
    /\ ctl_pc = "loop"
    /\ loop_remaining = 0
    /\ ctl_pc' = "idle"
    /\ UNCHANGED <<channel, sink_cursor, source_cursor, buffer_padding, channels,
                   loop_remaining, sink_read, source_at_call, cb_pc, cb_frame,
                   data, input, produced, written, taken, receiver_alive,
                   send_errors, lost, graphVars, handleVars,
                   moduleVars>>

\* The driver invokes the output callback with a buffer of n_frames frames;
\* the callback takes the write lock of sink_cursor.
callback_begin(n_frames) ==
    /\ receiver_alive
    /\ cb_pc = "idle"
    /\ cb_pc' = "recv"
    /\ cb_frame' = 1
    /\ data' = [k \in 1..n_frames |-> [c \in 1..channels |-> Stale]]
    /\ UNCHANGED <<channel, sink_cursor, source_cursor, buffer_padding, channels,
                   ctl_pc, loop_remaining, sink_read, source_at_call, input,
                   produced, written, taken, receiver_alive,
                   send_errors, lost, graphVars, handleVars,
                   moduleVars>>

callback_try_recv_blocking ==
    /\ cb_pc = "recv"
    /\ channel # <<>>
    /\ input' = Head(channel)
    /\ channel' = Tail(channel)
    /\ taken' = taken + 1
    /\ cb_pc' = "write"
    /\ UNCHANGED <<sink_cursor, source_cursor, buffer_padding, channels, ctl_pc,
                   loop_remaining, sink_read, source_at_call, cb_frame, data,
                   produced, written, receiver_alive,
                   send_errors, lost, graphVars, handleVars,
                   moduleVars>>

\* receiver.try_recv() for the current chunk; an empty channel breaks out of
\* the loop and the callback returns, releasing the lock.
callback_try_recv ==
    /\ cb_pc = "recv"
    /\ IF channel # <<>>
       THEN /\ input' = Head(channel)
            /\ channel' = Tail(channel)
            /\ taken' = taken + 1
            /\ cb_pc' = "write"
       ELSE /\ cb_pc' = "idle"
            /\ UNCHANGED <<input, channel, taken>>
    /\ UNCHANGED <<sink_cursor, source_cursor, buffer_padding, channels, ctl_pc,
                   loop_remaining, sink_read, source_at_call, cb_frame, data,
                   produced, written, receiver_alive,
                   send_errors, lost, graphVars, handleVars,
                   moduleVars>>

callback_write_counts_elements ==
    /\ cb_pc = "write"
    /\ data' = [data EXCEPT ![cb_frame] = [c \in 1..channels |-> Some(input)]]
    /\ sink_cursor' = sink_cursor + channels
    /\ written' = Append(written, input)
    /\ cb_frame' = cb_frame + 1
    /\ cb_pc' = IF cb_frame = Len(data) THEN "idle" ELSE "recv"
    /\ UNCHANGED <<channel, source_cursor, buffer_padding, channels, ctl_pc,
                   loop_remaining, sink_read, source_at_call, input, produced,
                   taken, receiver_alive,
                   send_errors, lost, graphVars, handleVars,
                   moduleVars>>

callback_write_no_count ==
    /\ cb_pc = "write"
    /\ data' = [data EXCEPT ![cb_frame] = [c \in 1..channels |-> Some(input)]]
    /\ written' = Append(written, input)
    /\ cb_frame' = cb_frame + 1
    /\ cb_pc' = IF cb_frame = Len(data) THEN "idle" ELSE "recv"
    /\ UNCHANGED <<sink_cursor, channel, source_cursor, buffer_padding, channels,
                   ctl_pc, loop_remaining, sink_read, source_at_call, input,
                   produced, taken, receiver_alive,
                   send_errors, lost, graphVars, handleVars,
                   moduleVars>>

\* The body of `if let Ok(input)`: every element of the chunk is set to the
\* input and sink_cursor is incremented; after the last chunk the callback
\* returns.
callback_write ==
    /\ cb_pc = "write"
    /\ data' = [data EXCEPT ![cb_frame] = [c \in 1..channels |-> Some(input)]]
    /\ sink_cursor' = sink_cursor + 1
    /\ written' = Append(written, input)
    /\ cb_frame' = cb_frame + 1
    /\ cb_pc' = IF cb_frame = Len(data) THEN "idle" ELSE "recv"
    /\ UNCHANGED <<channel, source_cursor, buffer_padding, channels, ctl_pc,
                   loop_remaining, sink_read, source_at_call, input, produced,
                   taken, receiver_alive,
                   send_errors, lost, graphVars, handleVars,
                   moduleVars>>

\* The platform tears the stream down (device lost, stream error): the
\* callback closure is dropped between two invocations, and with it the
\* Receiver and the samples still queued in the channel.
receiver_drop ==
    /\ receiver_alive
    /\ cb_pc = "idle"
    /\ receiver_alive' = FALSE
    /\ channel' = <<>>
    /\ UNCHANGED <<sink_cursor, source_cursor, buffer_padding, channels, ctl_pc,
                   loop_remaining, sink_read, source_at_call, cb_pc, cb_frame,
                   data, input, produced, written, taken, send_errors, lost,
                   graphVars, handleVars,
                   moduleVars>>

(***************************************************************************)
(* Part II: the signal graph of the `language` crate                       *)
(*                                                                         *)
(* f64 values are modelled as exact rationals <<numerator, denominator>>   *)
(* in lowest terms (rounding is not modelled).                             *)
(***************************************************************************)
MaxIndex == 2          \* ticks 0..MaxIndex are sampled
GraphSampleRate == 4   \* ctx.sample_rate of the modelled graph
MaxSets == 2           \* calls of TriggerVar::set counted between two ticks
MaxAsked == 2          \* calls of sample on one node counted in one tick

RECURSIVE GCD(_, _)
GCD(a, b) == IF b = 0 THEN a ELSE GCD(b, a % b)
Abs(x) == IF x < 0 THEN -x ELSE x
Rat(n, d) == LET g == GCD(Abs(n), d) IN <<n \div g, d \div g>>
RatAdd(a, b) ==
    LET g == GCD(a[2], b[2])
    IN  Rat(a[1] * (b[2] \div g) + b[1] * (a[2] \div g), (a[2] \div g) * b[2])
RatNeg(a) == <<-a[1], a[2]>>
RatSub(a, b) == RatAdd(a, RatNeg(b))
RatMul(a, b) ==
    LET g == GCD(Abs(a[1]), b[2])
        h == GCD(Abs(b[1]), a[2])
    IN  Rat((a[1] \div g) * (b[1] \div h), (a[2] \div h) * (b[2] \div g))
RatDivInt(a, k) == Rat(a[1], a[2] * k)
RatInv(a) == IF a[1] > 0 THEN <<a[2], a[1]>> ELSE <<-a[2], -a[1]>>
RatDiv(a, b) == RatMul(a, RatInv(b))
RatLt(a, b) == RatSub(a, b)[1] < 0
RatLe(a, b) == RatSub(a, b)[1] <= 0
RatMin(a, b) == IF RatLt(b, a) THEN b ELSE a
RatMax(a, b) == IF RatLt(a, b) THEN b ELSE a
RatClamp(a, lo, hi) == RatMax(lo, RatMin(a, hi))
RatAbs(a) == <<Abs(a[1]), a[2]>>
rem_euclid_1(a) == Rat(a[1] % a[2], a[2])
Zero == Rat(0, 1)
One == Rat(1, 1)

\* amplify::THRESHOLD
THRESHOLD == Rat(1, 64)

(***************************************************************************)
(* The graph, composed once with the functions of dsl.rs:                  *)
(*   (gate, _) = var(false);  (gain, _) = var(0.0);                        *)
(*   (trig, _) = trigger_var();  edge = gate.trigger();                    *)
(*   osc  = lfo(const_(Saw), const_(1.0), trig, const_(0.0), const_(0.0)); *)
(*   amp  = amplify(osc, gain);  held = sample_and_hold(osc, edge);        *)
(*   root = amp + held          (both(..).map(|(l, r)| l + r))             *)
(* Every field that names a node is a handle obtained by clone_ref.        *)
(***************************************************************************)
Graph ==
    [ gate      |-> [kind |-> "Var", init |-> FALSE, values |-> BOOLEAN],
      gain      |-> [kind |-> "Var", init |-> Zero,
                     values |-> {THRESHOLD, One, RatNeg(One)}],
      trig      |-> [kind |-> "TriggerVar"],
      edge      |-> [kind |-> "Trigger", signal |-> "gate"],
      waveform  |-> [kind |-> "Const", value |-> "Saw"],
      frequency |-> [kind |-> "Const", value |-> One],
      offset    |-> [kind |-> "Const", value |-> Zero],
      width     |-> [kind |-> "Const", value |-> Zero],
      osc       |-> [kind |-> "oscillator", waveform |-> "waveform",
                     frequency_hz |-> "frequency", reset_trigger |-> "trig",
                     reset_offset_01 |-> "offset",
                     square_wave_pulse_width_01 |-> "width"],
      amp       |-> [kind |-> "amplify", signal |-> "osc", by |-> "gain"],
      held      |-> [kind |-> "sample_and_hold", signal |-> "osc",
                     trigger |-> "edge"],
      both      |-> [kind |-> "Both", s0 |-> "amp", s1 |-> "held"],
      root      |-> [kind |-> "Map", buffered_signal |-> "both", f |-> "add"] ]

Nodes == DOMAIN Graph
Root == "root"

\* the nodes a node's fields hold handles of
Inputs(n) ==
    LET p == Graph[n] IN
    CASE p.kind \in {"Var", "TriggerVar", "Const"} -> {}
      [] p.kind = "Trigger" -> {p.signal}
      [] p.kind = "Map" -> {p.buffered_signal}
      [] p.kind = "Both" -> {p.s0, p.s1}
      [] p.kind = "amplify" -> {p.signal, p.by}
      [] p.kind = "sample_and_hold" -> {p.signal, p.trigger}
      [] p.kind = "oscillator" ->
            {p.waveform, p.frequency_hz, p.reset_trigger, p.reset_offset_01,
             p.square_wave_pulse_width_01}

RECURSIVE ReachableWithin(_, _)
ReachableWithin(S, k) ==
    IF k = 0 THEN S
    ELSE ReachableWithin(S \cup UNION {Inputs(n) : n \in S}, k - 1)
\* every node reachable from the root
Reachable == ReachableWithin({Root}, Cardinality(Nodes))

\* the state each SignalTrait object is constructed with
NewState(n) ==
    LET p == Graph[n] IN
    CASE p.kind = "Var" -> p.init                           \* Var::new(value)
      [] p.kind = "TriggerVar" -> FALSE                     \* Var::new(false)
      [] p.kind = "Trigger" -> [prev_sample |-> FALSE]
      [] p.kind = "oscillator" -> [state |-> None]
      [] p.kind = "sample_and_hold" -> [last_sample |-> Zero]
      [] OTHER -> None

\* BufferedSignalUnshared::new
NewMemo == [buffered_sample |-> None, next_sample_index |-> 0]

VarNodes == {n \in Nodes : Graph[n].kind = "Var"}
TriggerVarNodes == {n \in Nodes : Graph[n].kind = "TriggerVar"}
TriggerNodes == {n \in Nodes : Graph[n].kind = "Trigger"}

(***************************************************************************)
(* History kept of the sampling calls:                                     *)
(*   index       the index of the tick the latest call belonged to         *)
(*   asked[n]    how often BufferedSignal::sample was called on the node   *)
(*               in that tick, through whatever handle (up to MaxAsked)    *)
(*   calls[n]    how often the node's SignalTrait::sample ran in that tick *)
(*   rets[n]     the values BufferedSignal::sample returned for the node   *)
(*               in that tick                                              *)
(*   result[n]   what the node's SignalTrait::sample last returned         *)
(*   passed[n]   the greatest index any handle passed to the node (-1)     *)
(*   last[n]     the last call of BufferedSignal::sample on the node       *)
(*   sets[n]     (TriggerVar) calls of set since the last tick in which    *)
(*               the node was sampled                                      *)
(*   yield[n]    (TriggerVar) what the node yielded in the last tick in    *)
(*               which it was sampled, and in the one before               *)
(*   pulse[n]    (Trigger) the input and the output in the last tick in    *)
(*               which the node was sampled, and in the one before         *)
(*   sent        the indices send_signal has passed to the root, in order  *)
(***************************************************************************)
NewObs ==
    [ index  |-> 0,
      asked  |-> [n \in Nodes |-> 0],
      calls  |-> [n \in Nodes |-> 0],
      rets   |-> [n \in Nodes |-> {}],
      result |-> [n \in Nodes |-> None],
      passed |-> [n \in Nodes |-> -1],
      last   |-> [n \in Nodes |-> None],
      sets   |-> [n \in TriggerVarNodes |-> 0],
      yield  |-> [n \in TriggerVarNodes |-> None],
      pulse  |-> [n \in TriggerNodes |->
                    [ticks |-> 0, input |-> FALSE, out |-> FALSE,
                     prev_input |-> FALSE, prev_out |-> FALSE]],
      sent   |-> <<>> ]

\* A call with the index of a new tick starts that tick's counts.
ObsAt(i) ==
    IF i = obs.index THEN obs
    ELSE [obs EXCEPT !.index = i,
                     !.asked = [n \in Nodes |-> 0],
                     !.calls = [n \in Nodes |-> 0],
                     !.rets = [n \in Nodes |-> {}]]

\* The graph state threaded through one sampling call, and a call's outcome.
GraphState(i) == [memo |-> memo, st |-> st, obs |-> ObsAt(i)]
Ret(G, v) == [g |-> G, v |-> v]

\* Sequencing of one statement with the statements after it: `first` is
\* evaluated once and its value is given to `rest`.
Then(first, rest(_)) == CHOOSE out \in {rest(x) : x \in {first}} : TRUE

RECURSIVE sample(_, _, _)

\* Const::sample
Const_sample(G, n, ctx) == Ret(G, Graph[n].value)

\* Var::sample (self.get())
Var_sample(G, n, ctx) == Ret(G, G.st[n])

TriggerVar_sample_no_clear(G, n, ctx) == Ret(G, G.st[n])

\* TriggerVar::sample: read the cell, then clear it
TriggerVar_sample(G, n, ctx) ==
    LET value == G.st[n]
    IN  Ret([G EXCEPT !.st[n] = FALSE], value)

\* the closures given to map
Map_f(f, x) ==
    CASE f = "add" -> RatAdd(x[1], x[2])

\* Map::sample
Map_sample(G, n, ctx) ==
    Then(sample(G, Graph[n].buffered_signal, ctx), LAMBDA r :
    Ret(r.g, Map_f(Graph[n].f, r.v)))

\* Both::sample
Both_sample(G, n, ctx) ==
    Then(sample(G, Graph[n].s0, ctx), LAMBDA r0 :
    Then(sample(r0.g, Graph[n].s1, ctx), LAMBDA r1 :
    Ret(r1.g, <<r0.v, r1.v>>)))

Trigger_sample_level(G, n, ctx) ==
    Then(sample(G, Graph[n].signal, ctx), LAMBDA r :
    Ret([r.g EXCEPT !.st[n].prev_sample = r.v], r.v))

\* Trigger::sample
Trigger_sample(G, n, ctx) ==
    Then(sample(G, Graph[n].signal, ctx), LAMBDA r :
    LET trigger_sample == r.v /\ ~r.g.st[n].prev_sample
    IN  Ret([r.g EXCEPT !.st[n].prev_sample = r.v], trigger_sample))

amplify_sample_inclusive(G, n, ctx) ==
    Then(sample(G, Graph[n].by, ctx), LAMBDA r_by :
    IF RatLe(THRESHOLD, RatAbs(r_by.v))
    THEN Then(sample(r_by.g, Graph[n].signal, ctx), LAMBDA r :
         Ret(r.g, RatMul(r.v, r_by.v)))
    ELSE Ret(r_by.g, Zero))

\* amplify::Props::sample
amplify_sample(G, n, ctx) ==
    Then(sample(G, Graph[n].by, ctx), LAMBDA r_by :
    IF RatLt(THRESHOLD, RatAbs(r_by.v))
    THEN Then(sample(r_by.g, Graph[n].signal, ctx), LAMBDA r :
         Ret(r.g, RatMul(r.v, r_by.v)))
    ELSE Ret(r_by.g, Zero))

\* sample_and_hold::Signal::sample
sample_and_hold_sample(G, n, ctx) ==
    Then(sample(G, Graph[n].trigger, ctx), LAMBDA r_t :
    IF r_t.v
    THEN Then(sample(r_t.g, Graph[n].signal, ctx), LAMBDA r :
         Ret([r.g EXCEPT !.st[n].last_sample = r.v], r.v))
    ELSE Ret(r_t.g, r_t.g.st[n].last_sample))

\* (PI * x).sin() for x in [0, 1]: exact at 0, 1/2 and 1, elsewhere the
\* rational 16x(1 - x) / (5 - 4x(1 - x)), within 0.002 of the sine
sin_pi_01(x) ==
    LET p == RatMul(x, RatSub(One, x))
    IN  RatDiv(RatMul(Rat(16, 1), p), RatSub(Rat(5, 1), RatMul(Rat(4, 1), p)))

\* the oscillator's shape functions; the sine is exact at the quarter phases
Waveform_value(waveform, state, pulse_width) ==
    CASE waveform = "Saw" -> RatAdd(RatMul(state, Rat(2, 1)), Rat(-1, 1))
      [] waveform = "Square" -> IF RatLt(state, pulse_width) THEN Rat(-1, 1) ELSE One
      [] waveform = "Triangle" ->
            RatAdd(RatMul(RatAbs(RatAdd(RatMul(state, Rat(2, 1)), Rat(-1, 1))),
                          Rat(2, 1)),
                   Rat(-1, 1))
      [] waveform = "Sine" ->
            IF RatLe(state, Rat(1, 2))
            THEN sin_pi_01(RatMul(state, Rat(2, 1)))
            ELSE RatNeg(sin_pi_01(RatSub(RatMul(state, Rat(2, 1)), One)))

\* oscillator::Signal::sample
oscillator_sample(G, n, ctx) ==
    LET p == Graph[n]
        first == G.st[n].state = None
    IN
    Then(IF first THEN sample(G, p.reset_offset_01, ctx) ELSE Ret(G, None),
         LAMBDA r0 :
    Then(sample(r0.g, p.reset_trigger, ctx), LAMBDA r1 :
    Then(IF r1.v THEN sample(r1.g, p.reset_offset_01, ctx)
                 ELSE sample(r1.g, p.frequency_hz, ctx), LAMBDA r2 :
    Then(sample(r2.g, p.waveform, ctx), LAMBDA r3 :
    Then(IF r3.v = "Square"
         THEN sample(r3.g, p.square_wave_pulse_width_01, ctx)
         ELSE Ret(r3.g, Zero), LAMBDA r4 :
    LET state0 == IF first THEN r0.v ELSE r0.g.st[n].state[1]
        state == IF r1.v THEN r2.v
                 ELSE rem_euclid_1(RatAdd(state0,
                                          RatDivInt(r2.v, ctx.sample_rate)))
    IN  Ret([r4.g EXCEPT !.st[n].state = Some(state)],
            Waveform_value(r3.v, state, r4.v)))))))

\* BufferedSignalUnshared::sample_signal: self.signal.sample(ctx), dispatched
\* on the boxed object's type; the run and its result are recorded.
sample_signal(G, n, ctx) ==
    LET kind == Graph[n].kind IN
    Then([G EXCEPT !.obs.calls[n] = @ + 1], LAMBDA G1 :
    Then(CASE kind = "Const" -> Const_sample(G1, n, ctx)
           [] kind = "Var" -> Var_sample(G1, n, ctx)
           [] kind = "TriggerVar" -> TriggerVar_sample(G1, n, ctx)
           [] kind = "Map" -> Map_sample(G1, n, ctx)
           [] kind = "Both" -> Both_sample(G1, n, ctx)
           [] kind = "Trigger" -> Trigger_sample(G1, n, ctx)
           [] kind = "amplify" -> amplify_sample(G1, n, ctx)
           [] kind = "sample_and_hold" -> sample_and_hold_sample(G1, n, ctx)
           [] kind = "oscillator" -> oscillator_sample(G1, n, ctx),
         LAMBDA r :
    Ret([r.g EXCEPT !.obs.result[n] = Some(r.v)], r.v)))

unshared_sample_no_memo(G, n, ctx) ==
    Then([G EXCEPT !.memo[n].next_sample_index = ctx.sample_index + 1],
         LAMBDA G1 :
    Then(sample_signal(G1, n, ctx), LAMBDA r :
    Ret([r.g EXCEPT !.memo[n].buffered_sample = Some(r.v)], r.v)))

unshared_sample_recompute_older(G, n, ctx) ==
    IF ctx.sample_index < G.memo[n].next_sample_index
    THEN IF ctx.sample_index + 1 = G.memo[n].next_sample_index
         THEN Ret(G, G.memo[n].buffered_sample[1])
         ELSE Then(sample_signal(G, n, ctx), LAMBDA r :
              Ret([r.g EXCEPT !.memo[n].buffered_sample = Some(r.v)], r.v))
    ELSE Then([G EXCEPT !.memo[n].next_sample_index = ctx.sample_index + 1],
              LAMBDA G1 :
         Then(sample_signal(G1, n, ctx), LAMBDA r :
         Ret([r.g EXCEPT !.memo[n].buffered_sample = Some(r.v)], r.v)))

unshared_sample_stale_index(G, n, ctx) ==
    IF ctx.sample_index < G.memo[n].next_sample_index
    THEN Ret(G, G.memo[n].buffered_sample[1])
    ELSE Then([G EXCEPT !.memo[n].next_sample_index = ctx.sample_index],
              LAMBDA G1 :
         Then(sample_signal(G1, n, ctx), LAMBDA r :
         Ret([r.g EXCEPT !.memo[n].buffered_sample = Some(r.v)], r.v)))

\* BufferedSignalUnshared::sample
unshared_sample(G, n, ctx) ==
    IF ctx.sample_index < G.memo[n].next_sample_index
    THEN IF G.memo[n].buffered_sample # None
         THEN Ret(G, G.memo[n].buffered_sample[1])
         ELSE Then(sample_signal(G, n, ctx), LAMBDA r :
              Ret([r.g EXCEPT !.memo[n].buffered_sample = Some(r.v)], r.v))
    ELSE Then([G EXCEPT !.memo[n].next_sample_index = ctx.sample_index + 1],
              LAMBDA G1 :
         Then(sample_signal(G1, n, ctx), LAMBDA r :
         Ret([r.g EXCEPT !.memo[n].buffered_sample = Some(r.v)], r.v)))

\* The record kept of one call of BufferedSignal::sample.
ObserveCall(G0, r, n, ctx) ==
    LET i == ctx.sample_index IN
    [r.g EXCEPT
        !.obs.asked[n] = IF @ < MaxAsked THEN @ + 1 ELSE @,
        !.obs.passed[n] = IF i > @ THEN i ELSE @,
        !.obs.rets[n] = @ \cup {r.v},
        !.obs.last[n] = Some([index |-> i,
                              fresh |-> i > G0.obs.passed[n],
                              invoked |-> r.g.obs.calls[n] - G0.obs.calls[n],
                              value |-> r.v])]

\* The record kept of the first call on a node in a tick.
ObserveTick(G0, G, n, v) ==
    CASE Graph[n].kind = "TriggerVar" ->
            [G EXCEPT
                !.obs.sets[n] = 0,
                !.obs.yield[n] =
                    Some([sets |-> G0.obs.sets[n], value |-> v,
                          prev_value |-> IF @ = None THEN FALSE ELSE @[1].value])]
      [] Graph[n].kind = "Trigger" ->
            [G EXCEPT
                !.obs.pulse[n] =
                    [ticks |-> IF @.ticks < 2 THEN @.ticks + 1 ELSE 2,
                     input |-> G.memo[Graph[n].signal].buffered_sample[1],
                     out |-> v,
                     prev_input |-> @.input,
                     prev_out |-> @.out]]
      [] OTHER -> G

Observe(G0, r, n, ctx) ==
    Then(ObserveCall(G0, r, n, ctx), LAMBDA G :
    IF ctx.sample_index > G0.obs.passed[n]
    THEN ObserveTick(G0, G, n, r.v)
    ELSE G)

\* BufferedSignal::sample through any handle of node n: every handle made by
\* clone_ref shares the one BufferedSignalUnshared of the node.
sample(G, n, ctx) ==
    Then(G, LAMBDA G0 :
    Then(unshared_sample(G0, n, ctx), LAMBDA r :
    Ret(Observe(G0, r, n, ctx), r.v)))

SignalCtx(i) == [sample_index |-> i, sample_rate |-> GraphSampleRate]

NewGraph ==
    /\ memo = [n \in Nodes |-> NewMemo]
    /\ st = [n \in Nodes |-> NewState(n)]
    /\ sample_index = 0
    /\ obs = NewObs

send_signal_sample_no_increment ==
    /\ sample_index <= MaxIndex
    /\ \E ctx \in {SignalCtx(sample_index)} :
       \E r \in {sample(GraphState(sample_index), Root, ctx)} :
           /\ memo' = r.g.memo
           /\ st' = r.g.st
           /\ obs' = [r.g.obs EXCEPT !.sent = Append(@, ctx.sample_index)]
    /\ sample_index' = sample_index
    /\ UNCHANGED <<playerVars, handleVars,
                   moduleVars>>

\* The closure SignalPlayer::send_signal gives to play_stream: sample the
\* root with the current index, then increment the index.
send_signal_sample ==
    /\ sample_index <= MaxIndex
    /\ \E ctx \in {SignalCtx(sample_index)} :
       \E r \in {sample(GraphState(sample_index), Root, ctx)} :
           /\ memo' = r.g.memo
           /\ st' = r.g.st
           /\ obs' = [r.g.obs EXCEPT !.sent = Append(@, ctx.sample_index)]
    /\ sample_index' = sample_index + 1
    /\ UNCHANGED <<playerVars, handleVars,
                   moduleVars>>

\* Another holder of a handle of node n samples it in the current tick,
\* before the root is sampled.
sample_handle(n) ==
    /\ sample_index <= MaxIndex
    /\ \E r \in {sample(GraphState(sample_index), n, SignalCtx(sample_index))} :
           /\ memo' = r.g.memo
           /\ st' = r.g.st
           /\ obs' = r.g.obs
    /\ UNCHANGED <<sample_index, playerVars, handleVars,
                   moduleVars>>

\* A holder of a handle of node n samples it with the index of an earlier
\* tick.
sample_handle_at(n, index) ==
    /\ sample_index <= MaxIndex
    /\ index < sample_index
    /\ \E r \in {sample(GraphState(index), n, SignalCtx(index))} :
           /\ memo' = r.g.memo
           /\ st' = r.g.st
           /\ obs' = r.g.obs
    /\ UNCHANGED <<sample_index, playerVars, handleVars,
                   moduleVars>>

\* some node has been sampled with the index of the current tick
TickOpen == \E n \in Nodes : obs.passed[n] = sample_index

\* Var::set, called by the control thread between two ticks
Var_set(n, value) ==
    /\ Graph[n].kind = "Var"
    /\ sample_index <= MaxIndex
    /\ ~TickOpen
    /\ st' = [st EXCEPT ![n] = value]
    /\ UNCHANGED <<memo, sample_index, obs, playerVars, handleVars,
                   moduleVars>>

\* TriggerVar::set
TriggerVar_set(n) ==
    /\ Graph[n].kind = "TriggerVar"
    /\ sample_index <= MaxIndex
    /\ ~TickOpen
    /\ obs.sets[n] < MaxSets
    /\ st' = [st EXCEPT ![n] = TRUE]
    /\ obs' = [obs EXCEPT !.sets[n] = @ + 1]
    /\ UNCHANGED <<memo, sample_index, playerVars, handleVars,
                   moduleVars>>

\* the nodes of which a holder outside the graph keeps a handle
Handles == {"osc"}

(***************************************************************************)
(* Part III: the BufferedSignal of the `synth-language` crate              *)
(*                                                                         *)
(* A handle owns its memo fields; clone_ref copies them and shares only    *)
(* the SignalTrait object.  The graph:                                     *)
(*   (gate, _) = var(false);  edge = gate.trigger();                       *)
(*   left = edge.map(|x| x);  right = edge.map(|x| !x);                    *)
(*   root = left.both(&right)                                              *)
(* Each field that holds a BufferedSignal is a handle of its own.          *)
(***************************************************************************)
SlGraph ==
    [ gate  |-> [kind |-> "Var", init |-> FALSE, values |-> BOOLEAN],
      edge  |-> [kind |-> "Trigger", signal |-> "edge_signal"],
      left  |-> [kind |-> "Map", buffered_signal |-> "left_input", f |-> "id"],
      right |-> [kind |-> "Map", buffered_signal |-> "right_input", f |-> "not"],
      root  |-> [kind |-> "Both", s0 |-> "root_0", s1 |-> "root_1"] ]

SlSignals == DOMAIN SlGraph

\* handle -> the handle clone_ref made it from; the handles that `new`
\* returned are named after their signal and map to themselves
SlCloneOf ==
    [ gate |-> "gate", edge |-> "edge", left |-> "left", right |-> "right",
      root |-> "root",
      edge_signal |-> "gate",
      left_input  |-> "edge",
      right_input |-> "edge",
      root_0      |-> "left",
      root_1      |-> "right" ]

SlHandles == DOMAIN SlCloneOf
\* the signal a handle refers to (Rc::clone shares it)
SlSignalOf(h) == SlCloneOf[h]
SlRoot == "root"
\* the handles a holder outside the graph samples besides the root
SlOutsideHandles == {"edge", "left"}

\* BufferedSignal::new
sl_new == [buffered_sample |-> None, next_sample_index |-> 0]

\* BufferedSignal::clone_ref: the memo fields are copied into the new handle
sl_clone_ref(h) ==
    [buffered_sample |-> h.buffered_sample,
     next_sample_index |-> h.next_sample_index]

SlNewState(s) ==
    LET p == SlGraph[s] IN
    CASE p.kind = "Var" -> p.init
      [] p.kind = "Trigger" -> [prev_sample |-> FALSE]
      [] OTHER -> None

\* History: for the tick `index`, how often each signal's SignalTrait::sample
\* ran and the values the handles of the signal returned.
NewHandleObs ==
    [ index |-> 0,
      calls |-> [s \in SlSignals |-> 0],
      rets  |-> [s \in SlSignals |-> {}],
      sent  |-> <<>> ]      \* the indices send_signal has passed to the root

HandleObsAt(i) ==
    IF i = hobs.index THEN hobs
    ELSE [hobs EXCEPT !.index = i,
                      !.calls = [s \in SlSignals |-> 0],
                      !.rets = [s \in SlSignals |-> {}]]

HandleState(i) == [memo |-> hmemo, st |-> sst, obs |-> HandleObsAt(i)]

RECURSIVE sl_sample(_, _, _)

\* Var::sample
sl_Var_sample(G, s, ctx) == Ret(G, G.st[s])

\* the closures given to map
sl_Map_f(f, x) ==
    CASE f = "id" -> x
      [] f = "not" -> ~x

\* Map::sample
sl_Map_sample(G, s, ctx) ==
    Then(sl_sample(G, SlGraph[s].buffered_signal, ctx), LAMBDA r :
    Ret(r.g, sl_Map_f(SlGraph[s].f, r.v)))

\* Both::sample
sl_Both_sample(G, s, ctx) ==
    Then(sl_sample(G, SlGraph[s].s0, ctx), LAMBDA r0 :
    Then(sl_sample(r0.g, SlGraph[s].s1, ctx), LAMBDA r1 :
    Ret(r1.g, <<r0.v, r1.v>>)))

\* Trigger::sample
sl_Trigger_sample(G, s, ctx) ==
    Then(sl_sample(G, SlGraph[s].signal, ctx), LAMBDA r :
    LET trigger_sample == r.v /\ ~r.g.st[s].prev_sample
    IN  Ret([r.g EXCEPT !.st[s].prev_sample = r.v], trigger_sample))

\* BufferedSignal::sample_signal: self.signal.borrow_mut().sample(ctx)
sl_sample_signal(G, h, ctx) ==
    LET s == SlSignalOf(h)
        kind == SlGraph[s].kind
    IN
    Then([G EXCEPT !.obs.calls[s] = @ + 1], LAMBDA G1 :
    CASE kind = "Var" -> sl_Var_sample(G1, s, ctx)
      [] kind = "Map" -> sl_Map_sample(G1, s, ctx)
      [] kind = "Both" -> sl_Both_sample(G1, s, ctx)
      [] kind = "Trigger" -> sl_Trigger_sample(G1, s, ctx))

\* BufferedSignal::sample, on the handle's own memo fields
sl_handle_sample(G, h, ctx) ==
    IF ctx.sample_index < G.memo[h].next_sample_index
    THEN IF G.memo[h].buffered_sample # None
         THEN Ret(G, G.memo[h].buffered_sample[1])
         ELSE sl_sample_signal(G, h, ctx)
    ELSE Then([G EXCEPT !.memo[h].next_sample_index = ctx.sample_index + 1],
              LAMBDA G1 :
         Then(sl_sample_signal(G1, h, ctx), LAMBDA r :
         Ret([r.g EXCEPT !.memo[h].buffered_sample = Some(r.v)], r.v)))

\* A call of BufferedSignal::sample on handle h, with its value recorded.
sl_sample(G, h, ctx) ==
    Then(G, LAMBDA G0 :
    Then(sl_handle_sample(G0, h, ctx), LAMBDA r :
    Ret([r.g EXCEPT !.obs.rets[SlSignalOf(h)] = @ \cup {r.v}], r.v)))

\* The graph as composed: nothing has been sampled when clone_ref is called.
NewHandleGraph ==
    /\ hmemo = [h \in SlHandles |->
                   IF SlCloneOf[h] = h THEN sl_new ELSE sl_clone_ref(sl_new)]
    /\ sst = [s \in SlSignals |-> SlNewState(s)]
    /\ sl_index = 0
    /\ hobs = NewHandleObs

\* The closure SignalPlayer::send_signal gives to play_stream.
sl_send_signal_sample ==
    /\ sl_index <= MaxIndex
    /\ \E ctx \in {SignalCtx(sl_index)} :
       \E r \in {sl_sample(HandleState(sl_index), SlRoot, ctx)} :
           /\ hmemo' = r.g.memo
           /\ sst' = r.g.st
           /\ hobs' = [r.g.obs EXCEPT !.sent = Append(@, ctx.sample_index)]
    /\ sl_index' = sl_index + 1
    /\ UNCHANGED <<playerVars, graphVars,
                   moduleVars>>

\* A holder outside the graph samples its handle in the current tick.
sl_sample_handle(h) ==
    /\ sl_index <= MaxIndex
    /\ \E r \in {sl_sample(HandleState(sl_index), h, SignalCtx(sl_index))} :
           /\ hmemo' = r.g.memo
           /\ sst' = r.g.st
           /\ hobs' = r.g.obs
    /\ UNCHANGED <<sl_index, playerVars, graphVars,
                   moduleVars>>

\* some handle has been sampled with the index of the current tick
SlTickOpen == hobs.index = sl_index /\ \E s \in SlSignals : hobs.rets[s] # {}

\* Var::set, called by the control thread between two ticks
sl_Var_set(s, value) ==
    /\ SlGraph[s].kind = "Var"
    /\ sl_index <= MaxIndex
    /\ ~SlTickOpen
    /\ sst' = [sst EXCEPT ![s] = value]
    /\ UNCHANGED <<hmemo, sl_index, hobs, playerVars, graphVars,
                   moduleVars>>

(***************************************************************************)
(* Part IV: the envelope generators                                        *)
(*                                                                         *)
(* The generators are sampled once per tick; their gate is any sequence of *)
(* booleans, their other inputs are constant signals whose values are      *)
(* chosen at construction.  SpecEnvelope runs the three linear generators  *)
(* on one gate; SpecExpEnvelope runs the exponential generator.            *)
(***************************************************************************)
MaxExpTicks == 3    \* ticks of the exponential generator in one behaviour

\* attack/decay/release durations in seconds: at a sample rate of 4, half a
\* sample period, one sample period and eight sample periods
Durations == {Rat(1, 8), Rat(1, 4), Rat(2, 1)}
SustainLevels == {Zero, Rat(1, 2), One}
EnvCfgs ==
    [attack_seconds : Durations, decay_seconds : Durations,
     release_seconds : Durations, sustain_01 : SustainLevels]
DefaultEnvCfg ==
    [attack_seconds |-> Rat(2, 1), decay_seconds |-> Rat(2, 1),
     release_seconds |-> Rat(2, 1), sustain_01 |-> Rat(1, 2)]

\* 1.0 / (seconds * ctx.sample_rate as f64)
seconds_to_step_size_01(seconds, sample_rate) ==
    RatInv(RatMul(Rat(sample_rate, 1), seconds))

asr_envelope_lin_01_sample_unclamped(self, gate, cfg, ctx) ==
    LET delta == IF gate
                 THEN seconds_to_step_size_01(cfg.attack_seconds, ctx.sample_rate)
                 ELSE RatNeg(seconds_to_step_size_01(cfg.release_seconds,
                                                     ctx.sample_rate))
    IN  [current_value |-> RatAdd(self.current_value, delta)]

\* language: asr_envelope_lin_01::Signal::sample
asr_envelope_lin_01_sample(self, gate, cfg, ctx) ==
    LET delta == IF gate
                 THEN seconds_to_step_size_01(cfg.attack_seconds, ctx.sample_rate)
                 ELSE RatNeg(seconds_to_step_size_01(cfg.release_seconds,
                                                     ctx.sample_rate))
    IN  [current_value |-> RatClamp(RatAdd(self.current_value, delta), Zero, One)]

\* language: adsr_envelope_lin_01::Signal::sample
adsr_envelope_lin_01_sample(self, gate, cfg, ctx) ==
    IF gate
    THEN IF self.crossed_threshold
         THEN \* decay and sustain
              [self EXCEPT !.current_value =
                  RatMax(RatSub(@, seconds_to_step_size_01(cfg.decay_seconds,
                                                           ctx.sample_rate)),
                         cfg.sustain_01)]
         ELSE \* attack
              LET value == RatMin(RatAdd(self.current_value,
                                         seconds_to_step_size_01(
                                             cfg.attack_seconds, ctx.sample_rate)),
                                  One)
              IN  [current_value |-> value,
                   crossed_threshold |-> (value = One)]
    ELSE \* release
         [current_value |->
              RatMax(RatSub(self.current_value,
                            seconds_to_step_size_01(cfg.release_seconds,
                                                    ctx.sample_rate)),
                     Zero),
          crossed_threshold |-> FALSE]

AdsrPosition_after_gate_sticky(position, gate_current) ==
    IF ~gate_current
    THEN (IF position = "Sustain" THEN "Sustain" ELSE "Release")
    ELSE IF position = "Release" THEN "Attack"
    ELSE position

\* synth: the position the gate leaves the generator in, before the match
AdsrPosition_after_gate(position, gate_current) ==
    IF ~gate_current THEN "Release"
    ELSE IF position = "Release" THEN "Attack"
    ELSE position

\* synth: AdsrEnvelopeLinear01Signal::sample (and, with the configuration
\* held in the generator, LinearAdsrEnvelopeGenerator01::sample)
AdsrEnvelopeLinear01Signal_sample(self, gate_current, cfg, ctx) ==
    LET position == AdsrPosition_after_gate(self.position, gate_current) IN
    CASE position = "Attack" ->
            LET state == RatAdd(self.state,
                                seconds_to_step_size_01(cfg.attack_seconds,
                                                        ctx.sample_rate))
            IN  IF RatLe(One, state)
                THEN [position |-> "Decay", state |-> One]
                ELSE [position |-> "Attack", state |-> state]
      [] position = "Decay" ->
            LET state == RatSub(self.state,
                                seconds_to_step_size_01(cfg.decay_seconds,
                                                        ctx.sample_rate))
                sustain_level_01 == cfg.sustain_01
            IN  IF RatLe(state, sustain_level_01)
                THEN [position |-> "Sustain", state |-> sustain_level_01]
                ELSE [position |-> "Decay", state |-> state]
      [] position = "Sustain" -> [position |-> "Sustain", state |-> self.state]
      [] position = "Release" ->
            LET state == RatSub(self.state,
                                seconds_to_step_size_01(cfg.release_seconds,
                                                        ctx.sample_rate))
            IN  IF RatLe(state, Zero)
                THEN [position |-> "Release", state |-> Zero]
                ELSE [position |-> "Release", state |-> state]

\* synth-language: adsr_envelope_exp_01
ATTACK_ASYMPTOTE == Rat(3, 2)
DECAY_RELEASE_EPSILON == Rat(1, 64)
\* -(1.0 - 1.0 / ATTACK_ASYMPTOTE).ln() = ln 3 = 1.0986..., taken as 9/8
attack_gradient_factor_numerator == Rat(9, 8)
\* -DECAY_RELEASE_EPSILON.ln() = ln 64 = 4.1588..., taken as 33/8
decay_release_gradient_factor_numerator == Rat(33, 8)

\* adsr_envelope_exp_01::Signal::attack_delta
attack_delta(self, cfg, ctx) ==
    LET k == RatDiv(attack_gradient_factor_numerator, cfg.attack_seconds)
        gradient == RatMul(k, RatSub(ATTACK_ASYMPTOTE, self.current_value))
    IN  RatDivInt(gradient, ctx.sample_rate)

\* adsr_envelope_exp_01::Signal::decay_sustain_delta
decay_sustain_delta(self, cfg, ctx) ==
    LET k == RatDiv(decay_release_gradient_factor_numerator, cfg.decay_seconds)
        sustain_01 == cfg.sustain_01
        current_value_above_sustain ==
            RatMax(RatSub(self.current_value, sustain_01), Zero)
        gradient == RatMul(RatNeg(k), current_value_above_sustain)
    IN  RatDivInt(gradient, ctx.sample_rate)

\* adsr_envelope_exp_01::Signal::release_delta
release_delta(self, cfg, ctx) ==
    LET k == RatDiv(decay_release_gradient_factor_numerator, cfg.release_seconds)
        gradient == RatMul(RatNeg(k), self.current_value)
    IN  RatDivInt(gradient, ctx.sample_rate)

\* adsr_envelope_exp_01::Signal::sample
adsr_envelope_exp_01_sample(self, gate, cfg, ctx) ==
    LET in_attack == /\ self.current_value # One
                     /\ gate
                     /\ (self.in_attack \/ ~self.prev_gate)
        s1 == [self EXCEPT !.in_attack = in_attack]
        delta == IF gate
                 THEN IF in_attack THEN attack_delta(s1, cfg, ctx)
                                   ELSE decay_sustain_delta(s1, cfg, ctx)
                 ELSE release_delta(s1, cfg, ctx)
    IN  [in_attack |-> in_attack,
         prev_gate |-> gate,
         current_value |-> RatMin(RatAdd(self.current_value, delta), One)]

\* the generators as constructed (Signal::new)
NewLinearEnvelopes ==
    [ asr  |-> [current_value |-> Zero],
      adsr |-> [current_value |-> Zero, crossed_threshold |-> FALSE],
      pos  |-> [position |-> "Release", state |-> Zero] ]
NewExpEnvelope ==
    [in_attack |-> FALSE, prev_gate |-> FALSE, current_value |-> Zero]

NewEnvelopes(cfg) ==
    /\ env_cfg = cfg
    /\ env_lin = NewLinearEnvelopes
    /\ env_exp = NewExpEnvelope
    /\ env_obs = [lin_sampled |-> FALSE, exp_ticks |-> 0, gate |-> FALSE,
                  lin |-> NewLinearEnvelopes, exp |-> NewExpEnvelope]

\* One tick of a graph in which the three linear generators share the gate.
envelope_lin_sample(gate) ==
    LET ctx == SignalCtx(0) IN
    /\ env_lin' =
          [ asr  |-> asr_envelope_lin_01_sample(env_lin.asr, gate, env_cfg, ctx),
            adsr |-> adsr_envelope_lin_01_sample(env_lin.adsr, gate, env_cfg, ctx),
            pos  |-> AdsrEnvelopeLinear01Signal_sample(env_lin.pos, gate,
                                                       env_cfg, ctx) ]
    /\ env_obs' = [env_obs EXCEPT !.lin_sampled = TRUE, !.gate = gate,
                                  !.lin = env_lin]
    /\ UNCHANGED <<env_cfg, env_exp, notEnvVars>>

\* One tick of the exponential generator.
envelope_exp_sample(gate) ==
    /\ env_obs.exp_ticks < MaxExpTicks
    /\ env_exp' = adsr_envelope_exp_01_sample(env_exp, gate, env_cfg, SignalCtx(0))
    /\ env_obs' = [env_obs EXCEPT !.exp_ticks = @ + 1, !.gate = gate,
                                  !.exp = env_exp]
    /\ UNCHANGED <<env_cfg, env_lin, notEnvVars>>

(***************************************************************************)
(* Part V: the biquad filters of the `language` crate and of the          *)
(* `synth-language` crate                                                  *)
(*                                                                         *)
(* A filter is created with filter_order_half cascaded sections (the dsl   *)
(* functions pass 1); every tick it samples its input and, unless it has   *)
(* no section, its cutoff (and epsilon), recomputes the coefficients of    *)
(* each section and runs the sample through the cascade.                   *)
(*                                                                         *)
(* The transcendental functions are given at the points the model's inputs *)
(* lead to; where the value is irrational a nearby rational stands for it  *)
(* (within 4%).                                                            *)
(***************************************************************************)
\* a filter is run on while the numerators and denominators of its sections'
\* memories (w1, w2) are at most this
MaxMagnitude == 100
\* and for at most this many ticks
MaxFilterTicks == 2

\* the four filters of `language`, and (sl_) the four of `synth-language`
FilterKinds == {"butterworth_low_pass", "butterworth_high_pass",
                "chebyshev_low_pass", "chebyshev_high_pass",
                "sl_butterworth_low_pass", "sl_butterworth_high_pass",
                "sl_chebyshev_low_pass", "sl_chebyshev_high_pass"}
FilterOrders == {0, 1}                          \* filter_order_half
FilterInputs == {Zero, One, Rat(-1, 2)}         \* values of the input signal
\* cutoff frequencies: a quarter and an eighth of the sample rate, and zero
CutoffsHz == {Rat(GraphSampleRate, 4), Rat(GraphSampleRate, 8), Zero}
Epsilons == {Rat(8, 15), Rat(9, 40), Rat(-1, 2)}

\* (PI * x).tan(): tan(PI/4) = 1, tan(PI/8) = 0.4142...
tan_pi(x) ==
    CASE x = Rat(1, 4) -> One
      [] x = Rat(1, 8) -> Rat(2, 5)
      [] x = Zero -> Zero
\* (PI * x).sin() and (PI * x).cos(): sin(PI/4) = cos(PI/4) = 0.7071...
sin_pi(x) == CASE x = Rat(1, 4) -> Rat(7, 10)
cos_pi(x) == CASE x = Rat(1, 4) -> Rat(7, 10)
\* x.sqrt(), exact at the first two points; sqrt(1.0001) = 1.00005
sqrt(x) ==
    CASE x = Rat(289, 225) -> Rat(17, 15)
      [] x = Rat(1681, 1600) -> Rat(41, 40)
      [] x = Rat(10001, 10000) -> One
\* (x.ln() / n).sinh() and (x.ln() / n).cosh(), exact at the first two
\* points; (200.ln() / 2).sinh() = 7.0357..., (200.ln() / 2).cosh() = 7.1064...
sinh_ln_over(x, n) ==
    CASE x = Rat(4, 1) /\ n = 2 -> Rat(3, 4)
      [] x = Rat(9, 1) /\ n = 2 -> Rat(4, 3)
      [] x = Rat(200, 1) /\ n = 2 -> Rat(7, 1)
cosh_ln_over(x, n) ==
    CASE x = Rat(4, 1) /\ n = 2 -> Rat(5, 4)
      [] x = Rat(9, 1) /\ n = 2 -> Rat(5, 3)
      [] x = Rat(200, 1) /\ n = 2 -> Rat(7, 1)
\* (-x).exp(): exp(-8/15) = 0.5866..., exp(-9/40) = 0.7985...,
\* exp(-1/100) = 0.9900...
exp_neg(x) ==
    CASE x = Rat(8, 15) -> Rat(3, 5)
      [] x = Rat(9, 40) -> Rat(4, 5)
      [] x = Rat(1, 100) -> Rat(99, 100)

Two == Rat(2, 1)
Four == Rat(4, 1)

\* BufferEntry::default()
NewBufferEntry ==
    [a |-> Zero, d1 |-> Zero, d2 |-> Zero, w0 |-> Zero, w1 |-> Zero, w2 |-> Zero]

\* Buffer::new
NewBuffer(filter_order_half) == [k \in 1..filter_order_half |-> NewBufferEntry]

\* the loop of apply_low_pass (sign = 1) and apply_high_pass (sign = -1),
\* from entry k on
RECURSIVE apply_from(_, _, _, _)
apply_from(entries, k, value, sign) ==
    IF k > Len(entries) THEN [entries |-> entries, sample |-> value]
    ELSE Then(entries[k], LAMBDA entry :
         Then(RatAdd(RatAdd(RatMul(entry.d1, entry.w1),
                            RatMul(entry.d2, entry.w2)), value), LAMBDA w0 :
         Then(RatMul(entry.a,
                     RatAdd(RatAdd(w0, RatMul(Rat(2 * sign, 1), entry.w1)),
                            entry.w2)), LAMBDA out :
         apply_from([entries EXCEPT ![k] =
                        [entry EXCEPT !.w0 = w0, !.w2 = entry.w1, !.w1 = w0]],
                    k + 1, out, sign))))

\* Buffer::apply_low_pass
apply_low_pass(entries, value) == apply_from(entries, 1, value, 1)
\* Buffer::apply_high_pass
apply_high_pass(entries, value) == apply_from(entries, 1, value, -1)

\* butterworth::low_pass::UpdateBuffer::update_entries
butterworth_low_pass_update_entries(entries, ratio) ==
    LET a == tan_pi(ratio)
        a2 == RatMul(a, a)
        n == Len(entries)
    IN  [k \in 1..n |->
            LET i == k - 1
                r == sin_pi(Rat(2 * i + 1, 4 * n))
                s == RatAdd(RatAdd(a2, RatMul(Two, RatMul(a, r))), One)
            IN  [entries[k] EXCEPT
                    !.a = RatDiv(a2, s),
                    !.d1 = RatDiv(RatMul(Two, RatSub(One, a2)), s),
                    !.d2 = RatDiv(RatNeg(RatAdd(RatSub(a2, RatMul(Two, RatMul(a, r))),
                                                One)), s)]]

\* butterworth::high_pass::UpdateBuffer::update_entries
butterworth_high_pass_update_entries(entries, ratio) ==
    LET a == tan_pi(ratio)
        a2 == RatMul(a, a)
        n == Len(entries)
    IN  [k \in 1..n |->
            LET i == k - 1
                r == sin_pi(Rat(2 * i + 1, 4 * n))
                s == RatAdd(RatAdd(a2, RatMul(Two, RatMul(a, r))), One)
            IN  [entries[k] EXCEPT
                    !.a = RatDiv(One, s),
                    !.d1 = RatDiv(RatMul(Two, RatSub(One, a2)), s),
                    !.d2 = RatDiv(RatNeg(RatAdd(RatSub(a2, RatMul(Two, RatMul(a, r))),
                                                One)), s)]]

\* chebyshev::low_pass::UpdateBuffer::update_entries
chebyshev_low_pass_update_entries(entries, ratio, epsilon) ==
    LET a == tan_pi(ratio)
        a2 == RatMul(a, a)
        x == RatDiv(RatAdd(One, sqrt(RatAdd(One, RatMul(epsilon, epsilon)))),
                    epsilon)                    \* u = x.ln()
        n == Len(entries) * 2
        su == sinh_ln_over(x, n)
        cu == cosh_ln_over(x, n)
    IN  [k \in 1..Len(entries) |->
            LET i == k - 1
                theta == Rat(2 * i + 1, 2 * n)          \* in units of PI
                b == RatMul(sin_pi(theta), su)
                c0 == RatMul(cos_pi(theta), cu)
                c == RatAdd(RatMul(b, b), RatMul(c0, c0))
                s == RatAdd(RatAdd(RatMul(a2, c), RatMul(Two, RatMul(a, b))), One)
            IN  [entries[k] EXCEPT
                    !.a = RatDiv(a2, RatMul(Four, s)),
                    !.d1 = RatDiv(RatMul(Two, RatSub(One, RatMul(a2, c))), s),
                    !.d2 = RatDiv(RatNeg(RatAdd(RatSub(RatMul(a2, c),
                                                       RatMul(Two, RatMul(a, b))),
                                                One)), s)]]

\* chebyshev::high_pass::UpdateBuffer::update_entries
chebyshev_high_pass_update_entries(entries, ratio, epsilon) ==
    LET a == tan_pi(ratio)
        a2 == RatMul(a, a)
        x == RatDiv(RatAdd(One, sqrt(RatAdd(One, RatMul(epsilon, epsilon)))),
                    epsilon)
        n == Len(entries) * 2
        su == sinh_ln_over(x, n)
        cu == cosh_ln_over(x, n)
    IN  [k \in 1..Len(entries) |->
            LET i == k - 1
                theta == Rat(2 * i + 1, 2 * n)
                b == RatMul(sin_pi(theta), su)
                c0 == RatMul(cos_pi(theta), cu)
                c == RatAdd(RatMul(b, b), RatMul(c0, c0))
                s == RatAdd(RatAdd(a2, RatMul(Two, RatMul(a, b))), c)
            IN  [entries[k] EXCEPT
                    !.a = RatDiv(One, RatMul(Four, s)),
                    !.d1 = RatDiv(RatMul(Two, RatSub(c, a2)), s),
                    !.d2 = RatDiv(RatNeg(RatAdd(RatSub(a2, RatMul(Two, RatMul(a, b))),
                                                c)), s)]]

\* What a sample returns: the buffer after the tick, the output, and (for
\* the history) the arguments it passed to update_entries, None when it
\* returned before calling it.
Sampled(r, out, args) == [entries |-> r.entries, sample |-> out, used |-> args]

\* biquad_filter::butterworth::sample::<U, P>
butterworth_sample(entries, pass, value, half_power_frequency_hz, ctx) ==
    IF Len(entries) = 0
    THEN [entries |-> entries, sample |-> value, used |-> None]
    ELSE Then(RatDivInt(half_power_frequency_hz, ctx.sample_rate), LAMBDA ratio :
         Then(IF pass = "low_pass"
              THEN apply_low_pass(
                       butterworth_low_pass_update_entries(entries, ratio), value)
              ELSE apply_high_pass(
                       butterworth_high_pass_update_entries(entries, ratio), value),
              LAMBDA r :
         Sampled(r, r.sample, Some([cutoff |-> ratio]))))

EPSILON_MIN == Rat(1, 100)

chebyshev_sample_no_bypass(entries, pass, value, cutoff_hz, epsilon_in, ctx) ==
    LET cutoff_sample_rate_ratio == RatDivInt(cutoff_hz, ctx.sample_rate)
        epsilon == RatMax(epsilon_in, EPSILON_MIN)
        r == IF pass = "low_pass"
             THEN apply_low_pass(
                      chebyshev_low_pass_update_entries(
                          entries, cutoff_sample_rate_ratio, epsilon), value)
             ELSE apply_high_pass(
                      chebyshev_high_pass_update_entries(
                          entries, cutoff_sample_rate_ratio, epsilon), value)
        scale_factor == RatDiv(RatSub(One, exp_neg(epsilon)), Two)
    IN  Sampled(r, RatDiv(r.sample, scale_factor),
                Some([cutoff |-> cutoff_sample_rate_ratio, epsilon |-> epsilon]))

\* biquad_filter::chebyshev::sample::<U, P>
chebyshev_sample(entries, pass, value, cutoff_hz, epsilon_in, ctx) ==
    IF Len(entries) = 0
    THEN [entries |-> entries, sample |-> value, used |-> None]
    ELSE LET cutoff_sample_rate_ratio == RatDivInt(cutoff_hz, ctx.sample_rate)
             epsilon == RatMax(epsilon_in, EPSILON_MIN)
             r == IF pass = "low_pass"
                  THEN apply_low_pass(
                           chebyshev_low_pass_update_entries(
                               entries, cutoff_sample_rate_ratio, epsilon), value)
                  ELSE apply_high_pass(
                           chebyshev_high_pass_update_entries(
                               entries, cutoff_sample_rate_ratio, epsilon), value)
             scale_factor == RatDiv(RatSub(One, exp_neg(epsilon)), Two)
         IN  Sampled(r, RatDiv(r.sample, scale_factor),
                     Some([cutoff |-> cutoff_sample_rate_ratio, epsilon |-> epsilon]))

\* The filters of `synth-language` take the cutoff as a fraction of the
\* Nyquist frequency: update_entries computes a = ((PI * x) / 2.0).tan() and
\* from there on reads as the one of `language`, which is given x / 2 for it.
\* Each of the four modules' SignalTrait::sample is
\* sample::<UpdateBuffer, LowPass>: the module (low_pass or high_pass)
\* selects the UpdateBuffer, and P::apply is Buffer::apply_low_pass in all.

\* synth-language biquad_filter::butterworth::{low_pass, high_pass}::Signal::sample
sl_butterworth_sample(entries, module, value, half_power_frequency) ==
    IF Len(entries) = 0
    THEN [entries |-> entries, sample |-> value, used |-> None]
    ELSE Then(RatDiv(half_power_frequency, Two), LAMBDA ratio :
         Then(apply_low_pass(
                  IF module = "low_pass"
                  THEN butterworth_low_pass_update_entries(entries, ratio)
                  ELSE butterworth_high_pass_update_entries(entries, ratio),
                  value), LAMBDA r :
         Sampled(r, r.sample, Some([cutoff |-> half_power_frequency]))))

\* synth-language biquad_filter::chebyshev::{low_pass, high_pass}::Signal::sample
sl_chebyshev_sample(entries, module, value, cutoff_01, epsilon_in) ==
    IF Len(entries) = 0
    THEN [entries |-> entries, sample |-> value, used |-> None]
    ELSE LET ratio == RatDiv(cutoff_01, Two)
             epsilon == RatMax(epsilon_in, EPSILON_MIN)
             output_scaled ==
                 apply_low_pass(
                     IF module = "low_pass"
                     THEN chebyshev_low_pass_update_entries(entries, ratio, epsilon)
                     ELSE chebyshev_high_pass_update_entries(entries, ratio, epsilon),
                     value)
             scale_factor == RatDiv(RatSub(One, exp_neg(epsilon)), Two)
         IN  Sampled(output_scaled, RatDiv(output_scaled.sample, scale_factor),
                     Some([cutoff |-> cutoff_01, epsilon |-> epsilon]))

\* the memories w1 and w2 of every section of a buffer
Memories(entries) ==
    [k \in DOMAIN entries |-> [w1 |-> entries[k].w1, w2 |-> entries[k].w2]]

\* create(props, filter_order_half)
NewFilter(kind, filter_order_half) ==
    /\ flt = [kind |-> kind, entries |-> NewBuffer(filter_order_half)]
    /\ flt_obs = [ticks |-> 0, input |-> Zero, output |-> Zero,
                  before |-> Memories(NewBuffer(filter_order_half)),
                  used |-> None]

\* a frequency in units of the Nyquist frequency (half the sample rate)
Cutoff01(cutoff_hz) == RatDivInt(RatMul(Two, cutoff_hz), GraphSampleRate)

WithinMagnitude(x) == Abs(x[1]) <= MaxMagnitude /\ x[2] <= MaxMagnitude

\* One tick: the filter's SignalTrait::sample, its inputs having the given
\* values in this tick (a filter of `synth-language` reads the cutoff as the
\* same frequency in units of the Nyquist frequency).  The history counts the
\* ticks and keeps the sections' memories as they were before the tick
\* and what the tick passed to update_entries.
filter_sample(value, cutoff_hz, epsilon) ==
    /\ flt_obs.ticks < MaxFilterTicks
    /\ \A k \in DOMAIN flt.entries :
          WithinMagnitude(flt.entries[k].w1) /\ WithinMagnitude(flt.entries[k].w2)
    /\ \E r \in {CASE flt.kind = "butterworth_low_pass" ->
                        butterworth_sample(flt.entries, "low_pass", value,
                                           cutoff_hz, SignalCtx(0))
                   [] flt.kind = "butterworth_high_pass" ->
                        butterworth_sample(flt.entries, "high_pass", value,
                                           cutoff_hz, SignalCtx(0))
                   [] flt.kind = "chebyshev_low_pass" ->
                        chebyshev_sample(flt.entries, "low_pass", value,
                                         cutoff_hz, epsilon, SignalCtx(0))
                   [] flt.kind = "chebyshev_high_pass" ->
                        chebyshev_sample(flt.entries, "high_pass", value,
                                         cutoff_hz, epsilon, SignalCtx(0))
                   [] flt.kind = "sl_butterworth_low_pass" ->
                        sl_butterworth_sample(flt.entries, "low_pass", value,
                                              Cutoff01(cutoff_hz))
                   [] flt.kind = "sl_butterworth_high_pass" ->
                        sl_butterworth_sample(flt.entries, "high_pass", value,
                                              Cutoff01(cutoff_hz))
                   [] flt.kind = "sl_chebyshev_low_pass" ->
                        sl_chebyshev_sample(flt.entries, "low_pass", value,
                                            Cutoff01(cutoff_hz), epsilon)
                   [] flt.kind = "sl_chebyshev_high_pass" ->
                        sl_chebyshev_sample(flt.entries, "high_pass", value,
                                            Cutoff01(cutoff_hz), epsilon)} :
          /\ flt' = [flt EXCEPT !.entries = r.entries]
          /\ flt_obs' = [ticks |-> flt_obs.ticks + 1,
                         input |-> value,
                         output |-> r.sample,
                         before |-> Memories(flt.entries),
                         used |-> r.used]
    /\ UNCHANGED notFltVars

(***************************************************************************)
(* Part VI: weighted_sum of the `language` crate                           *)
(*                                                                         *)
(* The node holds two WeightedSignal { weight, signal }; each of the four  *)
(* fields is a handle (BufferedSignal) of a source of its own.  What a     *)
(* source returns is given per tick as the values of its successive runs   *)
(* in that tick, so that a second run in one tick would be seen.           *)
(***************************************************************************)
MaxMixTicks == 2       \* ticks of the weighted sum in one behaviour

MixWeights == {Zero, One, RatNeg(One), Rat(1, 2)}
MixSignals == {One, Rat(-1, 2)}

\* a source that yields v in its first run in a tick, v + 1 in its second
Runs(v) == <<v, RatAdd(v, One)>>
MixInputs ==
    { << [weight |-> Runs(w1), signal |-> Runs(s1)],
         [weight |-> Runs(w2), signal |-> Runs(s2)] >> :
        w1 \in MixWeights, w2 \in MixWeights,
        s1 \in MixSignals, s2 \in MixSignals }

\* self.signal.sample(ctx) of the source behind weighted_signals[k].field
Sf64_sample_signal(M, k, field, inputs) ==
    Then(inputs[k][field][M.ran[k][field] + 1], LAMBDA v :
    Ret([M EXCEPT !.ran[k][field] = @ + 1,
                  !.memo[k][field].buffered_sample = Some(v)], v))

Sf64_sample_no_memo(M, k, field, inputs, ctx) ==
    Sf64_sample_signal(
        [M EXCEPT !.memo[k][field].next_sample_index = ctx.sample_index + 1],
        k, field, inputs)

\* BufferedSignal::sample of weighted_signals[k].field
Sf64_sample(M, k, field, inputs, ctx) ==
    IF ctx.sample_index < M.memo[k][field].next_sample_index
    THEN IF M.memo[k][field].buffered_sample # None
         THEN Ret(M, M.memo[k][field].buffered_sample[1])
         ELSE Sf64_sample_signal(M, k, field, inputs)
    ELSE Sf64_sample_signal(
             [M EXCEPT !.memo[k][field].next_sample_index = ctx.sample_index + 1],
             k, field, inputs)

\* .map(|ws| ws.weight.sample(ctx)).sum::<f64>()
RECURSIVE weights_sum_from(_, _, _, _, _)
weights_sum_from(M, k, acc, inputs, ctx) ==
    IF k > Len(M.memo) THEN Ret(M, acc)
    ELSE Then(Sf64_sample(M, k, "weight", inputs, ctx), LAMBDA r :
         weights_sum_from(r.g, k + 1, RatAdd(acc, r.v), inputs, ctx))

\* .map(|ws| ws.weight.sample(ctx) * ws.signal.sample(ctx)).sum::<f64>()
RECURSIVE products_sum_from(_, _, _, _, _)
products_sum_from(M, k, acc, inputs, ctx) ==
    IF k > Len(M.memo) THEN Ret(M, acc)
    ELSE Then(Sf64_sample(M, k, "weight", inputs, ctx), LAMBDA rw :
         Then(Sf64_sample(rw.g, k, "signal", inputs, ctx), LAMBDA rs :
         products_sum_from(rs.g, k + 1, RatAdd(acc, RatMul(rw.v, rs.v)),
                           inputs, ctx)))

\* weighted_sum::Props::sample
weighted_sum_sample(M, inputs, ctx) ==
    Then(weights_sum_from(M, 1, Zero, inputs, ctx), LAMBDA weights_sum :
    IF weights_sum.v = Zero
    THEN Ret(weights_sum.g, Zero)
    ELSE Then(products_sum_from(weights_sum.g, 1, Zero, inputs, ctx),
              LAMBDA products :
         Ret(products.g, RatDiv(products.v, weights_sum.v))))

\* no source has run in the tick
NoRuns == [k \in 1..2 |-> [weight |-> 0, signal |-> 0]]

\* Props::new with two weighted signals
NewWeightedSum ==
    /\ mix = [k \in 1..2 |-> [weight |-> NewMemo, signal |-> NewMemo]]
    /\ mix_index = 0
    /\ mix_obs = [ticks |-> 0,
                  weights |-> <<Zero, Zero>>, signals |-> <<Zero, Zero>>,
                  output |-> Zero, ran |-> NoRuns]

\* One tick: the node is sampled with the next index.  The history keeps the
\* values the sources yielded in their first run and the runs of each source.
weighted_sum_tick(inputs) ==
    /\ mix_index < MaxMixTicks
    /\ \E r \in {weighted_sum_sample([memo |-> mix, ran |-> NoRuns], inputs,
                                     SignalCtx(mix_index))} :
          /\ mix' = r.g.memo
          /\ mix_obs' = [ticks |-> IF mix_obs.ticks < 2 THEN mix_obs.ticks + 1
                                   ELSE 2,
                         weights |-> [k \in 1..2 |-> inputs[k].weight[1]],
                         signals |-> [k \in 1..2 |-> inputs[k].signal[1]],
                         output |-> r.v,
                         ran |-> r.g.ran]
    /\ mix_index' = mix_index + 1
    /\ UNCHANGED notMixVars

(***************************************************************************)
(* Part VII: synth_sequencer of the `language` crate                       *)
(*                                                                         *)
(* The sequence is fixed at construction; step i has frequency i Hz and a  *)
(* period drawn from Periods (both are constant signals).  The clock's     *)
(* value is drawn every tick.                                              *)
(***************************************************************************)
MaxSteps == 3         \* sequences of 1..MaxSteps steps
MaxPulses == 4        \* clock pulses in one behaviour
MaxSince == 5         \* ticks run from a pulse (or from the start) on

Periods == {Zero, Rat(1, 4), Rat(3, 4)}
SequencesOf(n) ==
    { [i \in 1..n |-> [frequency_hz |-> Rat(i, 1), period_seconds |-> p[i]]] :
        p \in [1..n -> Periods] }
StepSequences == UNION {SequencesOf(n) : n \in 1..MaxSteps}
DefaultSequence == <<[frequency_hz |-> One, period_seconds |-> Zero]>>

NewSequencerSignal_at_first(sequence) ==
    [gate_remain_seconds |-> Zero, step_index |-> 0]

\* synth_sequencer::Signal::new
NewSequencerSignal(sequence) ==
    [gate_remain_seconds |-> Zero, step_index |-> Len(sequence) - 1]

synth_sequencer_sample_period_in_ticks(self, clock, sequence, ctx) ==
    LET step_index == IF clock THEN (self.step_index + 1) % Len(sequence)
                      ELSE self.step_index
        current_step == sequence[step_index + 1]
        armed == IF clock THEN current_step.period_seconds
                 ELSE self.gate_remain_seconds
        gate_remain_seconds == RatSub(armed, One)
    IN  [self |-> [gate_remain_seconds |-> gate_remain_seconds,
                   step_index |-> step_index],
         frequency_hz |-> current_step.frequency_hz,
         gate |-> RatLe(Zero, gate_remain_seconds)]

\* synth_sequencer::Signal::sample (step_index counts from 0 as in the code)
synth_sequencer_sample(self, clock, sequence, ctx) ==
    LET step_index == IF clock THEN (self.step_index + 1) % Len(sequence)
                      ELSE self.step_index
        current_step == sequence[step_index + 1]
        armed == IF clock THEN current_step.period_seconds
                 ELSE self.gate_remain_seconds
        gate_remain_seconds == RatSub(armed, Rat(1, ctx.sample_rate))
    IN  [self |-> [gate_remain_seconds |-> gate_remain_seconds,
                   step_index |-> step_index],
         frequency_hz |-> current_step.frequency_hz,
         gate |-> RatLe(Zero, gate_remain_seconds)]

(***************************************************************************)
(* History of the sequencer:                                               *)
(*   ticks      ticks so far, counted up to 2                              *)
(*   pulses     ticks so far in which the clock was true                   *)
(*   since      ticks from the last pulse on, its own tick included (from  *)
(*              the start on before the first pulse)                       *)
(*   period     the period sampled at the last pulse                      *)
(*   run        ticks from the last pulse on in which the gate was true,   *)
(*              counted while none of them had it false                    *)
(*   closed     the gate was false in a tick from the last pulse on        *)
(*   regained   the gate was true in a tick after one that closed it       *)
(*   clock, prev_step, frequency_hz, gate                                  *)
(*              the last tick's clock, the step_index before it and its    *)
(*              outputs                                                    *)
(***************************************************************************)
NewSequencer(sequence) ==
    /\ seq_cfg = sequence
    /\ seq = NewSequencerSignal(sequence)
    /\ seq_obs = [ticks |-> 0, pulses |-> 0, since |-> 0, period |-> Zero,
                  run |-> 0, closed |-> FALSE, regained |-> FALSE,
                  clock |-> FALSE, prev_step |-> Len(sequence) - 1,
                  frequency_hz |-> Zero, gate |-> FALSE]

\* One tick: the sequencer's SignalTrait::sample, the clock having the given
\* value in this tick.
sequencer_sample(clock) ==
    /\ IF clock THEN seq_obs.pulses < MaxPulses ELSE seq_obs.since < MaxSince
    /\ \E r \in {synth_sequencer_sample(seq, clock, seq_cfg, SignalCtx(0))} :
          /\ seq' = r.self
          /\ seq_obs' =
                [ticks |-> IF seq_obs.ticks < 2 THEN seq_obs.ticks + 1 ELSE 2,
                 pulses |-> IF clock THEN seq_obs.pulses + 1 ELSE seq_obs.pulses,
                 since |-> IF clock THEN 1 ELSE seq_obs.since + 1,
                 period |-> IF clock
                            THEN seq_cfg[r.self.step_index + 1].period_seconds
                            ELSE seq_obs.period,
                 run |-> IF clock THEN (IF r.gate THEN 1 ELSE 0)
                         ELSE IF r.gate /\ ~seq_obs.closed THEN seq_obs.run + 1
                         ELSE seq_obs.run,
                 closed |-> IF clock THEN ~r.gate
                            ELSE seq_obs.closed \/ ~r.gate,
                 regained |-> IF clock THEN FALSE
                              ELSE seq_obs.regained
                                      \/ (r.gate /\ seq_obs.closed),
                 clock |-> clock,
                 prev_step |-> seq.step_index,
                 frequency_hz |-> r.frequency_hz,
                 gate |-> r.gate]
    /\ UNCHANGED <<seq_cfg, notSeqVars>>


(***************************************************************************)
(* synth_sequencer with any step list, the empty one included.  step_index *)
(* is a usize: `len() - 1` and `step_index + 1` panic when they overflow   *)
(* in a build with overflow checks and wrap in one without; a remainder by *)
(* zero and an index out of bounds panic in every build.  A panic ends the *)
(* thread; the Signal is replaced by the message.                          *)
(***************************************************************************)
UsizeModulus == 2^16       \* stands for 2^64, the number of usize values

Panic(message) == [panic |-> message]
Panicked(self) == "panic" \in DOMAIN self

\* synth_sequencer::Signal::new, for a list of any length
NewSequencerSignalChecked(sequence, overflow_checks) ==
    IF Len(sequence) = 0
    THEN IF overflow_checks
         THEN Panic("attempt to subtract with overflow")
         ELSE [gate_remain_seconds |-> Zero,
               step_index |-> (Len(sequence) - 1) % UsizeModulus]
    ELSE NewSequencerSignal(sequence)

\* the panic, if any, that synth_sequencer::Signal::sample ends in
synth_sequencer_sample_panic(self, clock, sequence, overflow_checks) ==
    IF clock
    THEN IF overflow_checks /\ self.step_index + 1 >= UsizeModulus
         THEN Some("attempt to add with overflow")
         ELSE IF Len(sequence) = 0
         THEN Some("attempt to calculate the remainder with a divisor of zero")
         ELSE None
    ELSE IF self.step_index >= Len(sequence)
         THEN Some("index out of bounds")
         ELSE None

NewSequencerOfAnyList(sequence, overflow_checks) ==
    IF Len(sequence) = 0
    THEN /\ seq_cfg = sequence
         /\ seq = NewSequencerSignalChecked(sequence, overflow_checks)
         /\ seq_obs = [ticks |-> 0, pulses |-> 0, since |-> 0, period |-> Zero,
                       run |-> 0, closed |-> FALSE, regained |-> FALSE,
                       clock |-> FALSE, prev_step |-> 0,
                       frequency_hz |-> Zero, gate |-> FALSE]
    ELSE NewSequencer(sequence)

\* One tick of a sequencer that was constructed: it panics or runs as above.
\* Only a build without overflow checks constructs one from the empty list.
sequencer_sample_any(clock) ==
    /\ ~Panicked(seq)
    /\ \E panic \in {synth_sequencer_sample_panic(seq, clock, seq_cfg, FALSE)} :
          IF panic # None
          THEN /\ seq' = Panic(panic[1])
               /\ seq_obs' = [seq_obs EXCEPT !.ticks = 1, !.clock = clock]
               /\ UNCHANGED <<seq_cfg, notSeqVars>>
          ELSE sequencer_sample(clock)

(***************************************************************************)
(* Part VIII: the oscillator of the `language` crate, sampled alone        *)
(*                                                                         *)
(* The waveform and the pulse width are constant signals; the frequency,   *)
(* the reset trigger and the reset offset are drawn every tick.  The       *)
(* oscillator is built by the dsl function oscillator with one of three    *)
(* waveforms, or by square_oscillator.                                     *)
(***************************************************************************)
MaxOscTicks == 5       \* ticks of the oscillator in one behaviour

OscWaveforms == {"Saw", "Square", "Triangle"}
OscFrequencies == {One, Rat(2, 1), Rat(4, 1), Rat(-1, 1)}
OscOffsets == {Zero, Rat(1, 2), One}

\* dsl::oscillator: the waveform and the pulse width it gives to Props (dsl
\* names the dsl function called)
dsl_oscillator(dsl, waveform, square_wave_pulse_width_01) ==
    [dsl |-> dsl, waveform |-> waveform,
     pulse_width |-> square_wave_pulse_width_01]

\* dsl::square_oscillator
square_oscillator(pulse_width_01) ==
    dsl_oscillator("square_oscillator", "Sine", pulse_width_01)

OscCfgs ==
    {dsl_oscillator("oscillator", waveform, Rat(1, 2)) : waveform \in OscWaveforms}
    \cup {square_oscillator(Rat(1, 2))}
DefaultOscCfg == dsl_oscillator("oscillator", "Saw", Rat(1, 2))

oscillator_Signal_sample_no_wrap(self, cfg, frequency_hz, reset_trigger, reset_offset_01, ctx) ==
    LET state0 == IF self = None THEN reset_offset_01 ELSE self[1]
        state == IF reset_trigger THEN reset_offset_01
                 ELSE RatAdd(state0, RatDivInt(frequency_hz, ctx.sample_rate))
    IN  [self |-> Some(state),
         x |-> Waveform_value(cfg.waveform, state, cfg.pulse_width)]

oscillator_Signal_sample_reset_advances(self, cfg, frequency_hz, reset_trigger, reset_offset_01, ctx) ==
    LET state0 == IF self = None \/ reset_trigger THEN reset_offset_01
                  ELSE self[1]
        state == rem_euclid_1(RatAdd(state0,
                                     RatDivInt(frequency_hz, ctx.sample_rate)))
    IN  [self |-> Some(state),
         x |-> Waveform_value(cfg.waveform, state, cfg.pulse_width)]

\* oscillator::Signal::sample, its input signals having the given values in
\* this tick
oscillator_Signal_sample(self, cfg, frequency_hz, reset_trigger, reset_offset_01, ctx) ==
    LET state0 == IF self = None THEN reset_offset_01 ELSE self[1]
        state == IF reset_trigger THEN reset_offset_01
                 ELSE rem_euclid_1(RatAdd(state0,
                                          RatDivInt(frequency_hz,
                                                    ctx.sample_rate)))
    IN  [self |-> Some(state),
         x |-> Waveform_value(cfg.waveform, state, cfg.pulse_width)]

(***************************************************************************)
(* History of the oscillator:                                              *)
(*   ticks         ticks so far                                            *)
(*   prev          Signal.state before the last tick                       *)
(*   frequency_hz, reset_trigger, reset_offset_01, x                       *)
(*                 the inputs and the output of the last tick              *)
(*   free_running  the trigger has been false and the frequency the same   *)
(*                 in every tick so far                                    *)
(*   first_offset  the reset offset of the first tick                      *)
(*   outputs       the outputs of all ticks, kept while free_running       *)
(***************************************************************************)
NewOscillator(cfg) ==
    /\ osc_cfg = cfg
    /\ osc = None
    /\ osc_obs = [ticks |-> 0, prev |-> None, frequency_hz |-> Zero,
                  reset_trigger |-> FALSE, reset_offset_01 |-> Zero,
                  x |-> Zero, free_running |-> TRUE, first_offset |-> Zero,
                  outputs |-> <<>>]

\* One tick: the oscillator's SignalTrait::sample.
oscillator_tick(frequency_hz, reset_trigger, reset_offset_01) ==
    /\ osc_obs.ticks < MaxOscTicks
    /\ \E r \in {oscillator_Signal_sample(osc, osc_cfg, frequency_hz,
                                          reset_trigger, reset_offset_01,
                                          SignalCtx(osc_obs.ticks))} :
       \E free \in {/\ osc_obs.free_running
                    /\ ~reset_trigger
                    /\ osc_obs.ticks > 0 => frequency_hz = osc_obs.frequency_hz} :
          /\ osc' = r.self
          /\ osc_obs' = [ticks |-> osc_obs.ticks + 1,
                         prev |-> osc,
                         frequency_hz |-> frequency_hz,
                         reset_trigger |-> reset_trigger,
                         reset_offset_01 |-> reset_offset_01,
                         x |-> r.x,
                         free_running |-> free,
                         first_offset |-> IF osc_obs.ticks = 0
                                          THEN reset_offset_01
                                          ELSE osc_obs.first_offset,
                         outputs |-> IF free THEN Append(osc_obs.outputs, r.x)
                                     ELSE <<>>]
    /\ UNCHANGED <<osc_cfg, notOscVars>>


(***************************************************************************)
(* Part IX: the moving-average low-pass filter (synth-language and synth)  *)
(***************************************************************************)
MaxMavTicks == 4       \* ticks of the filter in one behaviour
MaxWidth == 3          \* the width signal ranges over 0..MaxWidth

MavInputs == {Zero, One, Rat(-1, 2)}

\* self.buffer.iter().sum::<f64>()
RECURSIVE SeqSum(_)
SeqSum(s) == IF s = <<>> THEN Zero ELSE RatAdd(SeqSum(Tail(s)), Head(s))

\* while self.buffer.len() >= width { self.buffer.pop_front(); }
RECURSIVE pop_front_while(_, _)
pop_front_while(buffer, width) ==
    IF Len(buffer) >= width THEN pop_front_while(Tail(buffer), width)
    ELSE buffer

moving_average_sample_pop_once(buffer, width_sample, current_sample) ==
    LET width == width_sample + 1
        popped == IF Len(buffer) >= width THEN Tail(buffer) ELSE buffer
        pushed == Append(popped, current_sample)
    IN  [buffer |-> pushed,
         output |-> RatDivInt(SeqSum(pushed), Len(pushed))]

\* moving_average_low_pass_filter_::Signal::sample
\* (and MovingAverageLowPassFilterSignal::sample of synth)
moving_average_sample(buffer, width_sample, current_sample) ==
    LET width == width_sample + 1
        pushed == Append(pop_front_while(buffer, width), current_sample)
    IN  [buffer |-> pushed,
         output |-> RatDivInt(SeqSum(pushed), Len(pushed))]

NewMovingAverage ==
    /\ mav = <<>>
    /\ mav_obs = [inputs |-> <<>>, width |-> 0, prev_len |-> 0,
                  output |-> Zero]

\* One tick: the filter's SignalTrait::sample, the width and the input
\* signal having the given values.
moving_average_tick(width_sample, current_sample) ==
    /\ Len(mav_obs.inputs) < MaxMavTicks
    /\ \E r \in {moving_average_sample(mav, width_sample, current_sample)} :
          /\ mav' = r.buffer
          /\ mav_obs' = [inputs |-> Append(mav_obs.inputs, current_sample),
                         width |-> width_sample,
                         prev_len |-> Len(mav),
                         output |-> r.output]
    /\ UNCHANGED notMavVars


(***************************************************************************)
(* Part X: state_variable_filter_first_order of the synth-language crate   *)
(*                                                                         *)
(* From<Props> for Output makes one BufferedSignal `parts` of the filter   *)
(* and three taps parts.map(..); each Map holds parts.clone_ref(), a       *)
(* handle with a memo of its own on the shared Signal.  The filter's three *)
(* inputs are constant signals.                                            *)
(***************************************************************************)
MaxSvfTicks == 2       \* ticks 0..MaxSvfTicks - 1 are sampled

Taps == {"low_pass", "band_pass", "high_pass"}
SvfProps == [signal |-> One, cutoff_01 |-> Rat(1, 2), resonance_01 |-> Rat(1, 2)]

\* state_variable_filter_first_order::next_parts
next_parts(parts, props) ==
    LET low_pass == RatAdd(parts.low_pass,
                           RatMul(props.cutoff_01, parts.band_pass))
        band_pass == RatSub(RatSub(props.signal, parts.low_pass),
                            RatMul(props.resonance_01, parts.band_pass))
        high_pass == RatSub(RatSub(props.signal, low_pass), band_pass)
    IN  [low_pass |-> low_pass, band_pass |-> band_pass,
         high_pass |-> high_pass]

\* state_variable_filter_first_order::Signal::sample; the run is counted
svf_Signal_sample(S, ctx) ==
    Then(next_parts(S.state, SvfProps), LAMBDA state :
    Ret([S EXCEPT !.state = state, !.advances = @ + 1], state))

\* BufferedSignal::sample (synth-language) on the handle of `parts` that the
\* Map of tap t holds
svf_parts_sample(S, t, ctx) ==
    IF ctx.sample_index < S.parts[t].next_sample_index
    THEN IF S.parts[t].buffered_sample # None
         THEN Ret(S, S.parts[t].buffered_sample[1])
         ELSE svf_Signal_sample(S, ctx)
    ELSE Then([S EXCEPT !.parts[t].next_sample_index = ctx.sample_index + 1],
              LAMBDA S1 :
         Then(svf_Signal_sample(S1, ctx), LAMBDA r :
         Ret([r.g EXCEPT !.parts[t].buffered_sample = Some(r.v)], r.v)))

\* Map::sample of tap t: (self.f)(self.buffered_signal.sample(ctx))
svf_Map_sample(S, t, ctx) ==
    Then(svf_parts_sample(S, t, ctx), LAMBDA r : Ret(r.g, r.v[t]))

\* BufferedSignal::sample (synth-language) on the tap's own handle
svf_tap_sample(S, t, ctx) ==
    IF ctx.sample_index < S.taps[t].next_sample_index
    THEN IF S.taps[t].buffered_sample # None
         THEN Ret(S, S.taps[t].buffered_sample[1])
         ELSE svf_Map_sample(S, t, ctx)
    ELSE Then([S EXCEPT !.taps[t].next_sample_index = ctx.sample_index + 1],
              LAMBDA S1 :
         Then(svf_Map_sample(S1, t, ctx), LAMBDA r :
         Ret([r.g EXCEPT !.taps[t].buffered_sample = Some(r.v)], r.v)))

\* From<Props> for Output; the history starts empty
NewStateVariableFilter ==
    /\ svf = [state |-> [low_pass |-> Zero, band_pass |-> Zero,
                         high_pass |-> Zero],
              parts |-> [t \in Taps |-> NewMemo],
              taps |-> [t \in Taps |-> NewMemo]]
    /\ svf_index = 0
    /\ svf_obs = [advances |-> 0, read |-> [t \in Taps |-> None],
                  states |-> {}]

\* A consumer samples tap t with the index of the current tick.  The history
\* keeps what each tap returned in the tick and the states the filter took.
svf_sample_tap(t) ==
    /\ svf_index < MaxSvfTicks
    /\ \E r \in {svf_tap_sample([state |-> svf.state, parts |-> svf.parts,
                                 taps |-> svf.taps,
                                 advances |-> svf_obs.advances],
                                t, SignalCtx(svf_index))} :
          /\ svf' = [state |-> r.g.state, parts |-> r.g.parts,
                     taps |-> r.g.taps]
          /\ svf_obs' = [advances |-> r.g.advances,
                         read |-> [svf_obs.read EXCEPT ![t] = Some(r.v)],
                         states |-> IF r.g.advances > svf_obs.advances
                                    THEN svf_obs.states \cup {r.g.state}
                                    ELSE svf_obs.states]
    /\ UNCHANGED <<svf_index, notSvfVars>>

\* The tick ends: the next call comes with the next index.
svf_next_tick ==
    /\ svf_index < MaxSvfTicks
    /\ svf_index' = svf_index + 1
    /\ svf_obs' = [advances |-> 0, read |-> [t \in Taps |-> None],
                   states |-> {}]
    /\ UNCHANGED <<svf, notSvfVars>>


(***************************************************************************)
(* Part XI: WrapF64 (src/wrap.rs)                                          *)
(*                                                                         *)
(* The claim about this type is about the values the f64 operations        *)
(* return, so here they round: an f64 is a rational with a significand of  *)
(* Precision bits (53 in the program), and an operation returns the exact  *)
(* result rounded to the nearest such number, ties to the even             *)
(* significand.  Infinities and NaN are left out.                          *)
(***************************************************************************)
Precision == 8         \* bits of the significand
MaxWrapOps == 2        \* additions in one behaviour

Pow2(e) == IF e >= 0 THEN Rat(2^e, 1) ELSE Rat(1, 2^(-e))

\* the f64 nearest to x
f64(x) ==
    IF x[1] = 0 THEN Zero
    ELSE Then(RatAbs(x), LAMBDA a :
         Then(CHOOSE e \in -12..12 : RatLe(Pow2(e), a) /\ RatLt(a, Pow2(e + 1)),
              LAMBDA e :
         Then(Pow2(e - Precision + 1), LAMBDA ulp :
         Then(RatDiv(a, ulp), LAMBDA q :
         Then(q[1] \div q[2], LAMBDA below :
         Then(2 * (q[1] % q[2]), LAMBDA rest :
         Then(IF rest < q[2] THEN below
              ELSE IF rest > q[2] THEN below + 1
              ELSE IF below % 2 = 0 THEN below ELSE below + 1, LAMBDA m :
         IF x[1] < 0 THEN RatNeg(RatMul(Rat(m, 1), ulp))
         ELSE RatMul(Rat(m, 1), ulp))))))))

\* x % y of f64: the remainder of the division truncated towards zero; it
\* is an f64 whenever x and y are
f64_rem(x, y) ==
    LET t == RatDiv(x, y)
        k == IF t[1] < 0 THEN -((-t[1]) \div t[2]) ELSE t[1] \div t[2]
    IN  RatSub(x, RatMul(Rat(k, 1), y))

\* f64::rem_euclid: let r = self % rhs; if r < 0.0 { r + rhs.abs() } else { r }
f64_rem_euclid(x, rhs) ==
    LET r == f64_rem(x, rhs)
    IN  IF r[1] < 0 THEN f64(RatAdd(r, RatAbs(rhs))) ELSE r

\* std::f64::consts::PI, here 3.125
PI == Rat(25, 8)

\* RangeF64Unit and RangeF64Radians
Ranges == {"Unit", "Radians"}
RangeF64(R) ==
    CASE R = "Unit" ->
            [MIN |-> Zero, MAX |-> One, DELTA |-> f64(RatSub(One, Zero))]
      [] R = "Radians" ->
            [MIN |-> RatNeg(PI), MAX |-> PI,
             DELTA |-> f64(RatSub(PI, RatNeg(PI)))]

\* wrap_f64::<R>
wrap_f64(R, value) ==
    f64(RatAdd(f64_rem_euclid(f64(RatSub(value, RangeF64(R).MIN)),
                              RangeF64(R).DELTA),
               RangeF64(R).MIN))

\* WrapF64::new
WrapF64_new(R, value) == [range |-> R, value |-> wrap_f64(R, value)]

\* Add for WrapF64<R> (AddAssign is *self = *self + rhs)
WrapF64_add(self, rhs) ==
    WrapF64_new(self.range, f64(RatAdd(self.value, rhs.value)))

\* Add<f64> for WrapF64<R> (AddAssign<f64> is *self = *self + rhs)
WrapF64_add_f64(self, rhs) ==
    WrapF64_new(self.range, f64(RatAdd(self.value, rhs)))

\* the f64 values given to new and to +: among them the negative number
\* nearest to zero that 1.0 + x rounds to 1.0, and the f64 just below -PI
WrapInputs ==
    {Zero, Rat(-5, 4), Rat(4, 1), Rat(1, 2), RatNeg(Pow2(-(Precision + 1))),
     RatSub(RatNeg(PI), Pow2(2 - Precision))}

NewWrap(R, value) ==
    /\ wrp = WrapF64_new(R, value)
    /\ wrp_obs = [v |-> value, ops |-> 0, rhs |-> Zero]

\* self + rhs and self += rhs, rhs a WrapF64 of the same range
wrap_add(rhs) ==
    /\ wrp_obs.ops < MaxWrapOps
    /\ wrp' = WrapF64_add(wrp, WrapF64_new(wrp.range, rhs))
    /\ wrp_obs' = [wrp_obs EXCEPT !.ops = @ + 1, !.rhs = rhs]
    /\ UNCHANGED notWrpVars

\* self + rhs and self += rhs, rhs an f64
wrap_add_f64(rhs) ==
    /\ wrp_obs.ops < MaxWrapOps
    /\ wrp' = WrapF64_add_f64(wrp, rhs)
    /\ wrp_obs' = [wrp_obs EXCEPT !.ops = @ + 1, !.rhs = rhs]
    /\ UNCHANGED notWrpVars


(***************************************************************************)
(* Part XII: clock of the `language` crate                                 *)
(*                                                                         *)
(* clock::create wraps clock::Signal in a Trigger: the Signal advances a   *)
(* phase and returns whether it is below 0.5, the Trigger returns true in  *)
(* the ticks in which that level is true and was not in the tick before.   *)
(***************************************************************************)
MaxClockTicks == 7     \* ticks of the clock in one behaviour
MaxPeriod == 4         \* the frequencies are sample_rate / 2 .. / MaxPeriod

ClockPeriods == 2..MaxPeriod
ClockFrequencies == {Rat(GraphSampleRate, N) : N \in ClockPeriods}

\* clock::Signal::sample
clock_Signal_sample(state, frequency_hz, ctx) ==
    Then(rem_euclid_1(RatAdd(state, RatDivInt(frequency_hz, ctx.sample_rate))),
         LAMBDA next : [state |-> next, level |-> RatLt(next, Rat(1, 2))])

clock_sample_level(self, frequency_hz, ctx) ==
    Then(clock_Signal_sample(self.state, frequency_hz, ctx), LAMBDA r :
    [self |-> [state |-> r.state, prev_sample |-> r.level],
     trigger_sample |-> r.level])

\* the signal clock::create returns: Trigger::sample over clock::Signal
clock_sample(self, frequency_hz, ctx) ==
    Then(clock_Signal_sample(self.state, frequency_hz, ctx), LAMBDA r :
    [self |-> [state |-> r.state, prev_sample |-> r.level],
     trigger_sample |-> r.level /\ ~self.prev_sample])

\* clock::Signal::new and BufferedSignal::trigger
NewClock ==
    /\ clk = [state |-> Zero, prev_sample |-> FALSE]
    /\ clk_obs = [frequencies |-> <<>>, outputs |-> <<>>, states |-> <<>>]

\* One tick: the clock is sampled, its frequency having the given value.
clock_tick(frequency_hz) ==
    /\ Len(clk_obs.outputs) < MaxClockTicks
    /\ \E r \in {clock_sample(clk, frequency_hz, SignalCtx(Len(clk_obs.outputs)))} :
          /\ clk' = r.self
          /\ clk_obs' = [frequencies |-> Append(clk_obs.frequencies, frequency_hz),
                         outputs |-> Append(clk_obs.outputs, r.trigger_sample),
                         states |-> Append(clk_obs.states, r.self.state)]
    /\ UNCHANGED notClkVars


(***************************************************************************)
(* Part XIII: the moving-average filters, the pop loop step by step        *)
(*                                                                         *)
(* MovingAverageFilter of the `synth` crate (f64) and of the root crate    *)
(* (f32) compare the buffer's length with the sampled width;               *)
(* moving_average_low_pass_filter of `synth-language` compares it with     *)
(* the sampled width + 1.  One step of the model is one evaluation of the  *)
(* loop condition with the body or the exit it leads to.                   *)
(***************************************************************************)
MaxMafTicks == 3       \* calls of sample() in one behaviour

MafKinds == {"MovingAverageFilter", "moving_average_low_pass_filter"}

\* let width = ...
maf_width(kind, width_sample) ==
    IF kind = "moving_average_low_pass_filter" THEN width_sample + 1
    ELSE width_sample

\* VecDeque::pop_front: None, and no change, on an empty buffer
pop_front(buffer) == IF buffer = <<>> THEN buffer ELSE Tail(buffer)

\* MovingAverageFilter::new, moving_average_low_pass_filter_::Signal::new
NewMovingAverageFilter(kind) ==
    /\ maf = [kind |-> kind, buffer |-> <<>>, pc |-> "idle", width |-> 0,
              current_sample |-> Zero]
    /\ maf_obs = [ticks |-> 0, divisor |-> None]

\* sample() is called: the width and the input are sampled
maf_sample_begin(width_sample, current_sample) ==
    /\ maf.pc = "idle"
    /\ maf_obs.ticks < MaxMafTicks
    /\ maf' = [maf EXCEPT !.pc = "while",
                          !.width = maf_width(maf.kind, width_sample),
                          !.current_sample = current_sample]
    /\ UNCHANGED <<maf_obs, notMafVars>>

\* the loop condition holds: self.buffer.pop_front()
maf_pop_front ==
    /\ maf.pc = "while"
    /\ Len(maf.buffer) >= maf.width
    /\ maf' = [maf EXCEPT !.buffer = pop_front(maf.buffer)]
    /\ UNCHANGED <<maf_obs, notMafVars>>

\* the loop condition fails: push_back, then sum / len, of which the history
\* keeps the divisor (the quotient is the output of Part IX)
maf_push_back ==
    /\ maf.pc = "while"
    /\ Len(maf.buffer) < maf.width
    /\ \E pushed \in {Append(maf.buffer, maf.current_sample)} :
          /\ maf' = [maf EXCEPT !.pc = "idle", !.buffer = pushed]
          /\ maf_obs' = [ticks |-> maf_obs.ticks + 1,
                         divisor |-> Some(Len(pushed))]
    /\ UNCHANGED notMafVars

\* the modules as constructed with their default inputs
NewModules ==
    /\ NewEnvelopes(DefaultEnvCfg)
    /\ NewFilter("butterworth_low_pass", 1)
    /\ NewWeightedSum
    /\ NewSequencer(DefaultSequence)
    /\ NewOscillator(DefaultOscCfg)
    /\ NewMovingAverage
    /\ NewStateVariableFilter
    /\ NewWrap("Unit", Zero)
    /\ NewClock
    /\ NewMovingAverageFilter("MovingAverageFilter")

(***************************************************************************)
(* Specifications                                                          *)
(***************************************************************************)
InitPlayer ==
    /\ \E sample_rate \in SampleRates : \E n_channels \in 1..MaxChannels :
          NewPlayer(sample_rate, n_channels)
    /\ NewGraph
    /\ NewHandleGraph
    /\ NewModules

NextPlayer ==
    \/ play_stream_begin
    \/ \E value \in SampleValues : play_sample(value)
    \/ play_stream_return
    \/ \E n_frames \in 1..MaxFrames : callback_begin(n_frames)
    \/ callback_try_recv
    \/ callback_write
    \/ receiver_drop

SpecPlayer == InitPlayer /\ [][NextPlayer]_vars

InitGraph ==
    NewGraph /\ NewPlayer(PaddingDivisor, 1) /\ NewHandleGraph /\ NewModules

NextGraph ==
    \/ send_signal_sample
    \/ \E n \in Handles : sample_handle(n)
    \/ \E n \in VarNodes : \E value \in Graph[n].values : Var_set(n, value)
    \/ \E n \in TriggerVarNodes : TriggerVar_set(n)

SpecGraph == InitGraph /\ [][NextGraph]_vars

InitHandle ==
    NewHandleGraph /\ NewGraph /\ NewPlayer(PaddingDivisor, 1) /\ NewModules

NextHandle ==
    \/ sl_send_signal_sample
    \/ \E h \in SlOutsideHandles : sl_sample_handle(h)
    \/ \E s \in {x \in SlSignals : SlGraph[x].kind = "Var"} :
          \E value \in SlGraph[s].values : sl_Var_set(s, value)

SpecHandle == InitHandle /\ [][NextHandle]_vars

OtherParts ==
    /\ NewPlayer(PaddingDivisor, 1)
    /\ NewGraph
    /\ NewHandleGraph

InitEnvelope ==
    /\ OtherParts
    /\ \E cfg \in EnvCfgs : NewEnvelopes(cfg)
    /\ NewFilter("butterworth_low_pass", 1)
    /\ NewWeightedSum
    /\ NewSequencer(DefaultSequence)
    /\ NewOscillator(DefaultOscCfg)
    /\ NewMovingAverage
    /\ NewStateVariableFilter
    /\ NewWrap("Unit", Zero)
    /\ NewClock
    /\ NewMovingAverageFilter("MovingAverageFilter")

NextEnvelope ==
    \E gate \in BOOLEAN : envelope_lin_sample(gate)

SpecEnvelope == InitEnvelope /\ [][NextEnvelope]_vars

NextExpEnvelope ==
    \E gate \in BOOLEAN : envelope_exp_sample(gate)

SpecExpEnvelope == InitEnvelope /\ [][NextExpEnvelope]_vars

InitFilter ==
    /\ OtherParts
    /\ NewEnvelopes(DefaultEnvCfg)
    /\ \E kind \in FilterKinds : \E filter_order_half \in FilterOrders :
          NewFilter(kind, filter_order_half)
    /\ NewWeightedSum
    /\ NewSequencer(DefaultSequence)
    /\ NewOscillator(DefaultOscCfg)
    /\ NewMovingAverage
    /\ NewStateVariableFilter
    /\ NewWrap("Unit", Zero)
    /\ NewClock
    /\ NewMovingAverageFilter("MovingAverageFilter")

NextFilter ==
    \E value \in FilterInputs : \E cutoff_hz \in CutoffsHz :
        \E epsilon \in Epsilons : filter_sample(value, cutoff_hz, epsilon)

SpecFilter == InitFilter /\ [][NextFilter]_vars

InitWeightedSum == OtherParts /\ NewModules

NextWeightedSum == \E inputs \in MixInputs : weighted_sum_tick(inputs)

SpecWeightedSum == InitWeightedSum /\ [][NextWeightedSum]_vars

InitSequencer ==
    /\ OtherParts
    /\ NewEnvelopes(DefaultEnvCfg)
    /\ NewFilter("butterworth_low_pass", 1)
    /\ NewWeightedSum
    /\ \E sequence \in StepSequences : NewSequencer(sequence)
    /\ NewOscillator(DefaultOscCfg)
    /\ NewMovingAverage
    /\ NewStateVariableFilter
    /\ NewWrap("Unit", Zero)
    /\ NewClock
    /\ NewMovingAverageFilter("MovingAverageFilter")

NextSequencer == \E clock \in BOOLEAN : sequencer_sample(clock)

SpecSequencer == InitSequencer /\ [][NextSequencer]_vars


InitOscillator ==
    /\ OtherParts
    /\ NewEnvelopes(DefaultEnvCfg)
    /\ NewFilter("butterworth_low_pass", 1)
    /\ NewWeightedSum
    /\ NewSequencer(DefaultSequence)
    /\ \E cfg \in OscCfgs : NewOscillator(cfg)
    /\ NewMovingAverage
    /\ NewStateVariableFilter
    /\ NewWrap("Unit", Zero)
    /\ NewClock
    /\ NewMovingAverageFilter("MovingAverageFilter")

NextOscillator ==
    \E frequency_hz \in OscFrequencies : \E reset_trigger \in BOOLEAN :
        \E reset_offset_01 \in OscOffsets :
            oscillator_tick(frequency_hz, reset_trigger, reset_offset_01)

SpecOscillator == InitOscillator /\ [][NextOscillator]_vars


InitMovingAverage == OtherParts /\ NewModules

NextMovingAverage ==
    \E width_sample \in 0..MaxWidth : \E current_sample \in MavInputs :
        moving_average_tick(width_sample, current_sample)

SpecMovingAverage == InitMovingAverage /\ [][NextMovingAverage]_vars


InitStateVariableFilter == OtherParts /\ NewModules

NextStateVariableFilter ==
    \/ \E t \in Taps : svf_sample_tap(t)
    \/ svf_next_tick

SpecStateVariableFilter ==
    InitStateVariableFilter /\ [][NextStateVariableFilter]_vars


InitWrap ==
    /\ OtherParts
    /\ NewEnvelopes(DefaultEnvCfg)
    /\ NewFilter("butterworth_low_pass", 1)
    /\ NewWeightedSum
    /\ NewSequencer(DefaultSequence)
    /\ NewOscillator(DefaultOscCfg)
    /\ NewMovingAverage
    /\ NewStateVariableFilter
    /\ \E R \in Ranges : \E value \in WrapInputs : NewWrap(R, value)
    /\ NewClock
    /\ NewMovingAverageFilter("MovingAverageFilter")

NextWrap ==
    \E rhs \in WrapInputs : wrap_add(rhs) \/ wrap_add_f64(rhs)

SpecWrap == InitWrap /\ [][NextWrap]_vars


InitClock == OtherParts /\ NewModules

NextClock == \E frequency_hz \in ClockFrequencies : clock_tick(frequency_hz)

SpecClock == InitClock /\ [][NextClock]_vars


\* the player with a caller that also changes buffer_padding, to no padding
\* at all or to the largest one
PaddingChoices == {0, MaxPadding}

NextPlayerPadding ==
    \/ NextPlayer
    \/ \E padding \in PaddingChoices : buffer_padding_mut(padding)

SpecPlayerPadding == InitPlayer /\ [][NextPlayerPadding]_vars


\* the player while the stream lives: the driver keeps invoking the callback,
\* which runs to its end once begun; the caller keeps calling play_stream,
\* which gets the lock between two callbacks and runs its loop to the end
callback_step ==
    \/ \E n_frames \in 1..MaxFrames : callback_begin(n_frames)
    \/ callback_try_recv
    \/ callback_write

play_stream_step ==
    \/ \E value \in SampleValues : play_sample(value)
    \/ play_stream_return

NextPlayerLive ==
    \/ callback_step
    \/ play_stream_begin
    \/ play_stream_step

SpecPlayerLive ==
    /\ InitPlayer
    /\ [][NextPlayerLive]_vars
    /\ WF_vars(callback_step)
    /\ SF_vars(play_stream_begin)
    /\ WF_vars(play_stream_step)


\* the graph with a holder of a handle that passes indices of earlier ticks
NextGraphAnyIndex ==
    \/ send_signal_sample
    \/ \E n \in VarNodes : \E value \in Graph[n].values : Var_set(n, value)
    \/ \E n \in Handles : \E index \in 0..MaxIndex : sample_handle_at(n, index)

SpecGraphAnyIndex == InitGraph /\ [][NextGraphAnyIndex]_vars


InitMovingAverageFilter ==
    /\ OtherParts
    /\ NewEnvelopes(DefaultEnvCfg)
    /\ NewFilter("butterworth_low_pass", 1)
    /\ NewWeightedSum
    /\ NewSequencer(DefaultSequence)
    /\ NewOscillator(DefaultOscCfg)
    /\ NewMovingAverage
    /\ NewStateVariableFilter
    /\ NewWrap("Unit", Zero)
    /\ NewClock
    /\ \E kind \in MafKinds : NewMovingAverageFilter(kind)

NextMovingAverageFilter ==
    \/ \E width_sample \in 0..MaxWidth : \E current_sample \in MavInputs :
          maf_sample_begin(width_sample, current_sample)
    \/ maf_pop_front
    \/ maf_push_back

\* a call of sample() that has begun keeps running
SpecMovingAverageFilter ==
    /\ InitMovingAverageFilter
    /\ [][NextMovingAverageFilter]_vars
    /\ WF_vars(maf_pop_front \/ maf_push_back)


InitSequencerAnyList ==
    /\ OtherParts
    /\ NewEnvelopes(DefaultEnvCfg)
    /\ NewFilter("butterworth_low_pass", 1)
    /\ NewWeightedSum
    /\ \E sequence \in StepSequences \cup {<<>>} :
       \E overflow_checks \in BOOLEAN :
           NewSequencerOfAnyList(sequence, overflow_checks)
    /\ NewOscillator(DefaultOscCfg)
    /\ NewMovingAverage
    /\ NewStateVariableFilter
    /\ NewWrap("Unit", Zero)
    /\ NewClock
    /\ NewMovingAverageFilter("MovingAverageFilter")

NextSequencerAnyList == \E clock \in BOOLEAN : sequencer_sample_any(clock)

SpecSequencerAnyList == InitSequencerAnyList /\ [][NextSequencerAnyList]_vars


(***************************************************************************)
(* Properties of Part I                                                    *)
(***************************************************************************)

\* C7: with buffer_padding fixed, the producer is never more than
\* buffer_padding samples ahead of the consumer, and the channel never holds
\* more than buffer_padding samples.
C7_ProducerWithinPadding ==
    /\ source_cursor - sink_cursor <= buffer_padding
    /\ Len(channel) <= buffer_padding

\* The producer has filled up to the full padding after the consumer moved.
C7_Witness ==
    /\ sink_cursor > 0
    /\ source_cursor = sink_cursor + buffer_padding
    /\ Len(channel) = buffer_padding

\* C34: whenever samples_behind can be evaluated (a call of play_stream may
\* begin) source_cursor <= sink_cursor + buffer_padding, so the subtraction
\* does not underflow and play_stream never panics, also after the caller
\* has lowered buffer_padding.
C34_SamplesBehindNeverUnderflows ==
    /\ (ctl_pc = "idle" /\ cb_pc = "idle") =>
          source_cursor <= sink_cursor + buffer_padding
    /\ ctl_pc # "panicked"

\* C36: sink_cursor never exceeds the number of samples sent on the channel
\* (the samples play_sample passed to a send that succeeded), and whenever
\* the control thread reads sink_cursor (it may take the read lock, and at
\* the read it made last) sink_cursor <= source_cursor.
C36_SinkNeverAheadOfSource ==
    /\ sink_cursor <= Len(produced) - Len(lost)
    /\ sink_cursor + Len(channel) <= Len(produced) - Len(lost)
    /\ (ctl_pc = "idle" /\ cb_pc = "idle") => sink_cursor <= source_cursor
    /\ sink_read <= source_at_call

\* The consumer has caught up with the producer after the caller changed the
\* padding, and the control thread has read a sink_cursor that had moved.
C36_Witness ==
    /\ ctl_pc = "idle"
    /\ cb_pc = "idle"
    /\ sink_cursor = source_cursor
    /\ sink_cursor >= 2
    /\ sink_read > 0
    /\ sink_read = source_at_call
    /\ buffer_padding = 0

\* C37: the callback holds the write lock of sink_cursor from its first to
\* its last step and can always take its next step (try_recv never waits),
\* so the two threads are never both blocked; the control thread needs the
\* lock only to begin play_stream (the read in samples_behind) and sends
\* without it, so the callback can begin whenever it is not running and an
\* iteration of play_stream's loop can run while the callback holds the lock.
C37_NoDeadlockOnSinkCursor ==
    /\ cb_pc # "idle" => ENABLED (callback_try_recv \/ callback_write)
    /\ (ctl_pc = "idle" /\ cb_pc = "idle") => ENABLED play_stream_begin
    /\ (cb_pc = "idle" /\ receiver_alive) =>
          ENABLED (\E n_frames \in 1..MaxFrames : callback_begin(n_frames))
    /\ (ctl_pc = "loop" /\ loop_remaining > 0 /\ Len(produced) < MaxProduced) =>
          ENABLED (\E value \in SampleValues : play_sample(value))

\* The control thread waits for the lock while the callback, which holds it
\* and has written a frame, finds the channel empty.
C37_Witness ==
    /\ ctl_pc = "idle"
    /\ cb_pc = "recv"
    /\ channel = <<>>
    /\ cb_frame = 2
    /\ source_cursor > 0

\* every value source_cursor takes is eventually reached by sink_cursor
EverySampleSentIsWritten ==
    \A n \in 0..MaxProduced : (source_cursor = n) ~> (sink_cursor >= n)

\* source_cursor grows until the stream closure has returned every sample
\* the model lets it return
SourceCursorGrows == <>(source_cursor = MaxProduced)

\* C38: with the callback weakly fair every sample sent is eventually
\* written, and with play_stream called again and again source_cursor grows
\* without bound.
C38_SentIsWrittenAndSourceGrows ==
    EverySampleSentIsWritten /\ SourceCursorGrows

\* C8: a call of play_stream requests exactly
\* (sink_cursor + buffer_padding) - source_cursor samples, so that on return
\* source_cursor = sink_cursor_read + buffer_padding, for every channel count.
C8_PlayStreamFillsToTarget ==
    /\ ctl_pc = "loop" =>
         loop_remaining + (source_cursor - source_at_call)
            = (sink_read + buffer_padding) - source_at_call
    /\ (ctl_pc = "loop" /\ loop_remaining = 0) =>
         source_cursor = sink_read + buffer_padding

\* C9: sink_cursor counts the samples taken from the channel and written to
\* a frame; a written frame holds the same sample in every channel slot, and
\* the frames after a break are left unwritten and uncounted.  Between the
\* receive and the write of one frame (lock held) the count lags by one.
C9_SinkCursorCountsWrittenFrames ==
    /\ sink_cursor = Len(written)
    /\ taken = sink_cursor + (IF cb_pc = "write" THEN 1 ELSE 0)
    /\ cb_frame <= Len(data) + 1
    /\ cb_frame - 1 <= Len(written)
    /\ \A k \in 1..Len(data) : \A c \in 1..channels :
          data[k][c] = IF k < cb_frame
                       THEN Some(written[Len(written) - (cb_frame - 1) + k])
                       ELSE Stale

\* A callback that ran out of samples after writing a frame: a written
\* two-slot frame followed by an unwritten one.
C9_Witness ==
    /\ cb_pc = "idle"
    /\ channels = 2
    /\ cb_frame = 2
    /\ Len(data) = 2
    /\ data[1] = <<Some(1), Some(1)>>
    /\ data[2] = <<Stale, Stale>>
    /\ sink_cursor = 3

\* C10: the samples written by the callback are a prefix of the samples the
\* stream closure returned, and what is not yet written is, in order, the
\* sample in hand followed by the channel's content.
C10_WrittenIsPrefixOfProduced ==
    /\ Len(written) <= Len(produced)
    /\ written = SubSeq(produced, 1, Len(written))
    /\ receiver_alive =>
         produced = written \o (IF cb_pc = "write" THEN <<input>> ELSE <<>>)
                            \o channel

\* Three samples of differing values were written while a later one is queued.
C10_Witness ==
    /\ Len(written) = 3
    /\ written[1] # written[2]
    /\ written[2] # written[3]
    /\ Len(channel) > 0

\* C11: a send that fails because the receiver was dropped is reported only
\* by a logged line: source_cursor still counts the sample, and the loop of
\* the enclosing play_stream runs the number of iterations it set out with.
C11_SendFailureIsLoggedOnly ==
    /\ source_cursor = Len(produced)
    /\ send_errors = Len(lost)
    /\ receiver_alive => lost = <<>>
    /\ ctl_pc \in {"idle", "loop"}
    /\ ctl_pc = "loop" =>
         loop_remaining + (source_cursor - source_at_call)
            = ((sink_read + buffer_padding) - source_at_call) \div channels

\* A play_stream call that started after the receiver was dropped has made
\* two failed sends and returned.
C11_Witness ==
    /\ ~receiver_alive
    /\ ctl_pc = "idle"
    /\ send_errors = 2
    /\ written = <<>>
    /\ source_cursor = source_at_call + 2

(***************************************************************************)
(* Properties of Part II                                                   *)
(***************************************************************************)

\* C1: in one tick, however many handles sample a node, all calls return the
\* same value and the node's SignalTrait::sample runs at most once.
C1_SharedMemoOncePerIndex ==
    \A n \in Nodes :
        /\ obs.calls[n] <= 1
        /\ Cardinality(obs.rets[n]) <= 1

\* The oscillator was sampled through several handles in one tick (among
\* amplify's, sample_and_hold's and an outside holder's) and ran once.
C1_Witness ==
    /\ obs.asked["osc"] = MaxAsked
    /\ obs.calls["osc"] = 1
    /\ obs.index = MaxIndex

\* C3: once the root has been sampled with a fresh index, every node
\* reachable from it has run exactly once for that index.
C3_EveryReachableNodeRunsOnce ==
    (sample_index = obs.index + 1 /\ obs.asked[Root] > 0) =>
        \A n \in Reachable : obs.calls[n] = 1

\* C4: a call with an index greater than every index passed to the node
\* before runs the underlying signal exactly once, returns and caches its
\* result and sets next_sample_index to index + 1; a following call with
\* the same index returns that value without running the signal.
C4_FreshIndexRecomputesAndCaches ==
    \A n \in Nodes :
        (obs.last[n] # None /\ obs.last[n][1].fresh) =>
            \E c \in {obs.last[n][1]} :
            \E G \in {GraphState(c.index)} :
            \E again \in {sample(G, n, SignalCtx(c.index))} :
                /\ c.invoked = 1
                /\ obs.result[n] = Some(c.value)
                /\ memo[n].buffered_sample = Some(c.value)
                /\ memo[n].next_sample_index = c.index + 1
                /\ again.v = c.value
                /\ again.g.obs.calls[n] = G.obs.calls[n]

\* The oscillator, not sampled in tick 1, recomputed in tick 2.
C4_Witness ==
    /\ obs.last["osc"] # None
    /\ obs.last["osc"][1].fresh
    /\ obs.last["osc"][1].index = 2
    /\ obs.calls["osc"] = 1
    /\ memo["waveform"].next_sample_index = 3
    /\ memo["frequency"].next_sample_index = 3
    /\ st["osc"].state = Some(Rat(1, 2))

\* C35: a node whose next_sample_index is above 0 has a buffered sample, and
\* a call with an index below next_sample_index, the current one or any
\* older one, returns the buffered sample without running the node's signal
\* and leaves the graph as it was; the last call made on a node with an
\* index that was not new ran no signal.
C35_StaleIndexReturnsBufferedSample ==
    \A n \in Nodes :
        /\ memo[n].next_sample_index = obs.passed[n] + 1
        /\ memo[n].next_sample_index > 0 => memo[n].buffered_sample # None
        /\ \A index \in 0..MaxIndex :
              index < memo[n].next_sample_index =>
                  \E G \in {GraphState(index)} :
                  \E r \in {sample(G, n, SignalCtx(index))} :
                      /\ Some(r.v) = memo[n].buffered_sample
                      /\ r.g.memo = memo
                      /\ r.g.st = st
                      /\ r.g.obs.calls = G.obs.calls
        /\ (obs.last[n] # None /\ ~obs.last[n][1].fresh) =>
              /\ obs.last[n][1].invoked = 0
              /\ Some(obs.last[n][1].value) = memo[n].buffered_sample

\* The oscillator's handle was last sampled with the index of tick 0 after
\* the node had been sampled in tick 1.
C35_Witness ==
    /\ obs.last["osc"] # None
    /\ obs.last["osc"][1].index = 0
    /\ ~obs.last["osc"][1].fresh
    /\ obs.passed["osc"] = 1
    /\ memo["osc"].next_sample_index = 2
    /\ sample_index = 2

\* C18: in a tick in which amplify ran, its output is exactly 0 when the gain
\* sampled in that tick has |gain| <= 1/64 (equality included), and is the
\* signal's value of that tick times the gain when |gain| > 1/64.
C18_AmplifyThreshold ==
    obs.calls["amp"] = 1 =>
        \E by \in {memo["gain"].buffered_sample[1]} :
            /\ memo["gain"].next_sample_index = obs.index + 1
            /\ IF RatLe(RatAbs(by), Rat(1, 64))
               THEN obs.result["amp"] = Some(Zero)
               ELSE /\ memo["osc"].next_sample_index = obs.index + 1
                    /\ obs.result["amp"] =
                          Some(RatMul(memo["osc"].buffered_sample[1], by))

\* The gain is 1/64 in a tick in which the oscillator's value is not 0 (it
\* was sampled by sample_and_hold): amplify's output is 0.
C18_Witness ==
    /\ obs.calls["amp"] = 1
    /\ memo["gain"].buffered_sample = Some(Rat(1, 64))
    /\ memo["osc"].next_sample_index = obs.index + 1
    /\ memo["osc"].buffered_sample # Some(Zero)
    /\ obs.result["amp"] = Some(Zero)

\* the indices 0, 1, .. in order, one for each sample produced, the next
\* index being their number
CountsSamples(sent, next_index) ==
    /\ sent = [k \in 1..Len(sent) |-> k - 1]
    /\ next_index = Len(sent)

\* C29: the sample_index SignalPlayer::send_signal passes to the root starts
\* at 0 and increases by exactly 1 for every sample produced: none is
\* repeated, none skipped, and each equals the number of samples produced
\* before it (in app and in synth-app).
C29_SampleIndexCountsSamples ==
    /\ CountsSamples(obs.sent, sample_index)
    /\ CountsSamples(hobs.sent, sl_index)

\* Three samples have been produced.
C29_Witness ==
    /\ obs.sent = <<0, 1, 2>>
    /\ sample_index = 3

\* C5: in a tick in which it is sampled, the TriggerVar's signal yields true
\* if and only if set was called (once or more) since the last tick in which
\* it was sampled.
C5_TriggerVarYieldsTrueOncePerSet ==
    \A n \in TriggerVarNodes :
        obs.yield[n] # None =>
            (obs.yield[n][1].value <=> obs.yield[n][1].sets > 0)

\* set was called twice, the next sampled tick yielded true and the tick
\* after it false.
C5_Witness ==
    /\ obs.yield["trig"] # None
    /\ obs.yield["trig"][1].prev_value
    /\ ~obs.yield["trig"][1].value
    /\ obs.sets["trig"] = 0
    /\ st["trig"] = FALSE

\* C6: in a tick in which it is sampled, trigger() outputs true if and only
\* if its input is true in that tick and was false in the previously sampled
\* tick (false before the first); so it is never true in two consecutive
\* sampled ticks.
C6_TriggerIsRisingEdge ==
    \A n \in TriggerNodes :
        LET p == obs.pulse[n] IN
        p.ticks > 0 =>
            /\ p.out <=> (p.input /\ ~p.prev_input)
            /\ ~(p.out /\ p.prev_out)

\* The input stayed true for a second tick: a pulse in the first, none in
\* the second.
C6_Witness ==
    /\ obs.pulse["edge"].ticks = 2
    /\ obs.pulse["edge"].input
    /\ obs.pulse["edge"].prev_input
    /\ obs.pulse["edge"].prev_out
    /\ ~obs.pulse["edge"].out

(***************************************************************************)
(* Properties of Part III                                                  *)
(***************************************************************************)

\* C2: in one tick, the handles cloned from one node all return the same
\* value and the node's SignalTrait::sample runs at most once.
C2_ClonedHandlesShareTheTick ==
    \A s \in SlSignals :
        /\ hobs.calls[s] <= 1
        /\ Cardinality(hobs.rets[s]) <= 1

(***************************************************************************)
(* Properties of Part IV                                                   *)
(***************************************************************************)
InUnitInterval(x) == RatLe(Zero, x) /\ RatLe(x, One)

\* C12: whatever the gate sequence, the positive durations and the sustain
\* level in [0,1], the output of each linear envelope generator is within
\* [0,1] at every tick.
C12_LinearEnvelopesWithinUnitInterval ==
    /\ InUnitInterval(env_lin.asr.current_value)
    /\ InUnitInterval(env_lin.adsr.current_value)
    /\ InUnitInterval(env_lin.pos.state)

\* With an attack shorter than one sample period the generators have gone
\* to the top in one tick, and the gate has since been released.
C12_Witness ==
    /\ env_obs.lin_sampled
    /\ env_cfg.attack_seconds = Rat(1, 8)
    /\ env_cfg.release_seconds = Rat(2, 1)
    /\ ~env_obs.gate
    /\ env_lin.asr.current_value = Rat(7, 8)
    /\ env_lin.adsr.current_value = Rat(7, 8)
    /\ env_lin.pos.state = Rat(7, 8)

\* C13: whatever the gate sequence, the positive durations (however small)
\* and the sustain level in [0,1], the output of the exponential ADSR
\* generator is within [0,1] at every tick.
C13_ExpEnvelopeWithinUnitInterval ==
    InUnitInterval(env_exp.current_value)

\* C14: in a tick in which the gate is false, the output of an envelope
\* generator is not above its previous output and not below 0.
C14_ReleaseMovesTowardZero ==
    /\ (env_obs.exp_ticks > 0 /\ ~env_obs.gate) =>
          /\ RatLe(env_exp.current_value, env_obs.exp.current_value)
          /\ RatLe(Zero, env_exp.current_value)
    /\ (env_obs.lin_sampled /\ ~env_obs.gate) =>
          /\ RatLe(env_lin.asr.current_value, env_obs.lin.asr.current_value)
          /\ RatLe(Zero, env_lin.asr.current_value)
          /\ RatLe(env_lin.adsr.current_value, env_obs.lin.adsr.current_value)
          /\ RatLe(Zero, env_lin.adsr.current_value)
          /\ RatLe(env_lin.pos.state, env_obs.lin.pos.state)
          /\ RatLe(Zero, env_lin.pos.state)

\* C33: the exponential ADSR enters Attack only in a tick in which the gate
\* is true and was false in the tick before; Attack persists while the gate
\* stays true until the value has reached exactly 1.0; in a tick with the
\* gate true and Attack over (decay/sustain) the value does not increase and
\* is not below the sustain level.
C33_ExpAttackThenDecay ==
    env_obs.exp_ticks > 0 =>
        LET before == env_obs.exp
            gate == env_obs.gate
        IN  /\ (env_exp.in_attack /\ ~before.in_attack) =>
                  (gate /\ ~before.prev_gate)
            /\ (before.in_attack /\ gate) =>
                  (env_exp.in_attack <=> before.current_value # One)
            /\ (gate /\ ~env_exp.in_attack) =>
                  /\ RatLe(env_exp.current_value, before.current_value)
                  /\ RatLe(env_cfg.sustain_01, env_exp.current_value)

\* C15: the position-based linear ADSR: a false gate forces Release; a true
\* gate turns Release into Attack; then, within the tick, Attack becomes
\* Decay exactly when the value reaches 1.0, Decay becomes Sustain exactly
\* when the value reaches the sustain level, and nothing else changes the
\* position.
C15_AdsrPositionTransitions ==
    env_obs.lin_sampled =>
        LET before == env_obs.lin.pos.position
            gated == IF ~env_obs.gate THEN "Release"
                     ELSE IF before = "Release" THEN "Attack" ELSE before
            after == env_lin.pos.position
            value == env_lin.pos.state
        IN  /\ ~env_obs.gate => after = "Release"
            /\ gated = "Attack" =>
                  /\ after \in {"Attack", "Decay"}
                  /\ after = "Decay" <=> value = One
            /\ gated = "Decay" =>
                  /\ after \in {"Decay", "Sustain"}
                  /\ after = "Sustain" <=> value = env_cfg.sustain_01
            /\ gated = "Sustain" => after = "Sustain"
            /\ gated = "Release" => after = "Release"

\* The decay has just reached a sustain level of one half.
C15_Witness ==
    /\ env_obs.lin_sampled
    /\ env_obs.gate
    /\ env_obs.lin.pos.position = "Decay"
    /\ env_lin.pos.position = "Sustain"
    /\ env_lin.pos.state = Rat(1, 2)
    /\ env_cfg.decay_seconds = Rat(2, 1)

(***************************************************************************)
(* Properties of Part V                                                    *)
(***************************************************************************)

\* C16: a Butterworth or Chebyshev filter, low-pass or high-pass, created
\* with filter_order_half = 0 returns in every tick the value its input
\* has in that tick, whatever the cutoff and epsilon.
C16_ZeroOrderFilterIsIdentity ==
    (Len(flt.entries) = 0 /\ flt_obs.ticks > 0) =>
        flt_obs.output = flt_obs.input

\* A Chebyshev high-pass filter without sections has passed a second,
\* non-zero input.
C16_Witness ==
    /\ flt.kind = "chebyshev_high_pass"
    /\ Len(flt.entries) = 0
    /\ flt_obs.ticks = 2
    /\ flt_obs.input = Rat(-1, 2)
    /\ flt_obs.output = Rat(-1, 2)

HighPassKinds == {"butterworth_high_pass", "chebyshev_high_pass",
                  "sl_butterworth_high_pass", "sl_chebyshev_high_pass"}
ChebyshevKinds == {"chebyshev_low_pass", "chebyshev_high_pass",
                   "sl_chebyshev_low_pass", "sl_chebyshev_high_pass"}

\* the recurrence of one section: from the memories w1 and w2 it had before
\* the tick and the coefficients of this tick, w0 = d1*w1 + d2*w2 + x and
\* y = a*(w0 + sign*2*w1 + w2), then w2 <- w1 and w1 <- w0; a Chebyshev
\* filter outputs y / scale_factor
SectionFollows(sign) ==
    LET entry == flt.entries[1]
        before == flt_obs.before[1]
        w0 == RatAdd(RatAdd(RatMul(entry.d1, before.w1),
                            RatMul(entry.d2, before.w2)), flt_obs.input)
        y == RatMul(entry.a,
                    RatAdd(RatAdd(w0, RatMul(Rat(2 * sign, 1), before.w1)),
                           before.w2))
        scale_factor == IF flt.kind \in ChebyshevKinds
                        THEN RatDiv(RatSub(One, exp_neg(flt_obs.used[1].epsilon)),
                                    Two)
                        ELSE One
    IN  /\ entry.w0 = w0
        /\ entry.w1 = w0
        /\ entry.w2 = before.w1
        /\ flt_obs.output = RatDiv(y, scale_factor)

\* C26: in every tick a high-pass filter, Butterworth or Chebyshev, of
\* either crate, applies to its section w0 = d1*w1 + d2*w2 + x and
\* y = a*(w0 - 2*w1 + w2), with the minus sign, and a low-pass filter the
\* same with the plus sign, and both then shift w2 <- w1, w1 <- w0.
C26_HighPassSubtracts ==
    (flt_obs.ticks > 0 /\ Len(flt.entries) = 1) =>
        SectionFollows(IF flt.kind \in HighPassKinds THEN -1 ELSE 1)

\* the cutoff floor the Chebyshev filters are described with
cutoff_min == Rat(1, 1000)

\* C27: the epsilon and the cutoff ratio a Chebyshev filter computes its
\* coefficients from in a tick are never below the floors epsilon_min and
\* cutoff_min, whatever the values of the epsilon and cutoff inputs (zero
\* and negative ones included).
C27_EpsilonAndCutoffFloored ==
    (flt.kind \in ChebyshevKinds /\ flt_obs.used # None) =>
        /\ RatLe(EPSILON_MIN, flt_obs.used[1].epsilon)
        /\ RatLe(cutoff_min, flt_obs.used[1].cutoff)

(***************************************************************************)
(* Properties of Parts VI and VII                                          *)
(***************************************************************************)

\* C17: in every tick the weighted sum outputs exactly 0 when the weights
\* sampled in the tick sum to 0, and otherwise the sum of weight * signal
\* divided by the sum of the weights, each weight having in both sums the
\* one value its source yielded in the tick (the source ran once).
C17_WeightedSumOfSampledWeights ==
    mix_obs.ticks > 0 =>
        \E w \in {mix_obs.weights} : \E s \in {mix_obs.signals} :
        \E total \in {RatAdd(w[1], w[2])} :
            /\ \A k \in 1..2 : mix_obs.ran[k].weight = 1
            /\ IF total = Zero
               THEN mix_obs.output = Zero
               ELSE mix_obs.output =
                      RatDiv(RatAdd(RatMul(w[1], s[1]), RatMul(w[2], s[2])),
                             total)

\* Weights 1 and -1 (their sum is 0 though neither is): the output is 0 and
\* no signal was sampled.
C17_Witness ==
    /\ mix_obs.ticks = 2
    /\ mix_obs.weights = <<One, RatNeg(One)>>
    /\ mix_obs.signals = <<One, One>>
    /\ mix_obs.output = Zero
    /\ mix_obs.ran[1].signal = 0

\* C19: a sequencer of N >= 1 steps advances by one step in every tick in
\* which its clock is true and stays in the other ticks; after the k-th
\* pulse it is at step (k - 1) mod N (the first pulse selects step 0) and
\* outputs that step's frequency.
C19_SequencerVisitsStepsInOrder ==
    \E N \in {Len(seq_cfg)} :
        /\ seq_obs.ticks > 0 =>
              seq.step_index = IF seq_obs.clock THEN (seq_obs.prev_step + 1) % N
                               ELSE seq_obs.prev_step
        /\ seq_obs.pulses = 0 => seq.step_index = N - 1
        /\ seq_obs.pulses > 0 =>
              /\ seq.step_index = (seq_obs.pulses - 1) % N
              /\ seq_obs.frequency_hz =
                    seq_cfg[((seq_obs.pulses - 1) % N) + 1].frequency_hz

\* The fourth pulse of a three-step sequencer selects step 0 again.
C19_Witness ==
    /\ Len(seq_cfg) = 3
    /\ seq_obs.pulses = 4
    /\ seq_obs.clock
    /\ seq_obs.prev_step = 2
    /\ seq.step_index = 0
    /\ seq_obs.frequency_hz = One

\* C40: constructing and sampling a step sequencer raises no runtime error
\* for any step list, the empty one included.
C40_SequencerNeverPanics == ~Panicked(seq)

\* C20: before the first pulse the gate is false; from a pulse that entered
\* a step of period p on, while no other pulse comes, the gate is true in a
\* run of n consecutive ticks that starts with the pulse's tick, with
\* |n - p * sample_rate| <= 1, and false in the ticks after the run.
C20_GateRunMatchesPeriod ==
    \E length \in {RatMul(seq_obs.period, Rat(GraphSampleRate, 1))} :
        /\ (seq_obs.pulses = 0 /\ seq_obs.ticks > 0) => ~seq_obs.gate
        /\ seq_obs.pulses > 0 =>
              /\ ~seq_obs.regained
              /\ ~seq_obs.closed =>
                    /\ seq_obs.run = seq_obs.since
                    /\ RatLe(Rat(seq_obs.run, 1), RatAdd(length, One))
              /\ seq_obs.closed =>
                    RatLe(RatAbs(RatSub(Rat(seq_obs.run, 1), length)), One)

\* A step of period 3/4 s at 4 Hz: the gate was true in the pulse's tick and
\* the two after it, and false in the two ticks after those.
C20_Witness ==
    /\ seq_obs.pulses = 2
    /\ seq_obs.period = Rat(3, 4)
    /\ seq_obs.since = 5
    /\ seq_obs.run = 3
    /\ seq_obs.closed
    /\ ~seq_obs.gate

(***************************************************************************)
(* Properties of Part VIII                                                 *)
(***************************************************************************)

\* C21: after every tick the oscillator's phase is in [0, 1), whatever the
\* frequencies, reset triggers and reset offsets were.
C21_PhaseWithinUnitInterval ==
    osc # None => (RatLe(Zero, osc[1]) /\ RatLt(osc[1], One))

\* C22: a free-running saw oscillator with reset offset 0 outputs in tick k
\* (counted from 0) the saw value at phase k * frequency / sample_rate mod 1,
\* so -1 in tick 0.
C22_FirstSampleAtPhaseZero ==
    (osc_cfg.waveform = "Saw" /\ osc_obs.free_running
        /\ osc_obs.first_offset = Zero) =>
        \A k \in DOMAIN osc_obs.outputs :
            osc_obs.outputs[k] =
                Waveform_value("Saw",
                    rem_euclid_1(RatMul(Rat(k - 1, 1),
                                        RatDivInt(osc_obs.frequency_hz,
                                                  GraphSampleRate))),
                    Zero)

C30_ResetSetsPhaseToOffset ==
    osc_obs.ticks > 0 =>
        \E start \in {IF osc_obs.prev = None THEN osc_obs.reset_offset_01
                      ELSE osc_obs.prev[1]} :
            osc = Some(IF osc_obs.reset_trigger
                       THEN osc_obs.reset_offset_01
                       ELSE rem_euclid_1(RatAdd(start,
                                RatDivInt(osc_obs.frequency_hz,
                                          GraphSampleRate))))

\* A reset to offset 1/2 in a later tick, with a frequency that would have
\* moved the phase.
C30_Witness ==
    /\ osc_obs.ticks = 3
    /\ osc_obs.reset_trigger
    /\ osc_obs.reset_offset_01 = Rat(1, 2)
    /\ osc_obs.frequency_hz = One
    /\ osc_obs.prev = Some(Rat(1, 4))
    /\ osc = Some(Rat(1, 2))

(***************************************************************************)
(* Properties of Part IX                                                   *)
(***************************************************************************)

\* the last n inputs, in arrival order
LastInputs(n) ==
    SubSeq(mav_obs.inputs, Len(mav_obs.inputs) - n + 1, Len(mav_obs.inputs))

\* C24 (as stated): after every tick the window holds at most width samples,
\* width being the width signal's value in that tick; they are the most
\* recent inputs in arrival order and the output is their mean.
C24_WindowHoldsAtMostWidth ==
    mav_obs.inputs # <<>> =>
        /\ Len(mav) <= mav_obs.width
        /\ mav = LastInputs(Len(mav))
        /\ mav_obs.output = RatDivInt(SeqSum(mav), Len(mav))

\* C24 (amended): after every tick the window holds at most width + 1
\* samples: the tick's input after at most width of the samples held
\* before, the older ones being dropped from the front in the same tick;
\* they are the most recent inputs in arrival order and the output is their
\* mean.
C24_WindowHoldsAtMostWidthPlusOne ==
    mav_obs.inputs # <<>> =>
        /\ Len(mav) = 1 + (IF mav_obs.prev_len < mav_obs.width
                           THEN mav_obs.prev_len ELSE mav_obs.width)
        /\ mav = LastInputs(Len(mav))
        /\ mav_obs.output = RatDivInt(SeqSum(mav), Len(mav))

\* The width went from 3 to 0 with a full window: three samples were
\* dropped in that tick.
C24_Witness ==
    /\ mav_obs.prev_len = 3
    /\ mav_obs.width = 0
    /\ Len(mav) = 1
    /\ mav_obs.inputs = <<One, One, Zero, Rat(-1, 2)>>
    /\ mav_obs.output = Rat(-1, 2)

(***************************************************************************)
(* Properties of Part X                                                    *)
(***************************************************************************)

\* C25: whichever taps of the state-variable filter are sampled in a tick,
\* the shared state advances exactly once in that tick and every tap read
\* in it comes from that one state.
C25_TapsShareOneAdvance ==
    (\E t \in Taps : svf_obs.read[t] # None) =>
        /\ svf_obs.advances = 1
        /\ \A t \in Taps :
              svf_obs.read[t] # None => svf_obs.read[t] = Some(svf.state[t])

(***************************************************************************)
(* Properties of Part XI                                                   *)
(***************************************************************************)

\* f64::EPSILON
EPSILON == Pow2(1 - Precision)

\* C28: the value of a WrapF64<R> lies in [R::MIN, R::MAX), after new and
\* after every + and +=; and the value of WrapF64<R>::new(v) differs from v
\* by an integer multiple of R::MAX - R::MIN (to within f64::EPSILON, as
\* the test of the module compares).
C28_WrapStaysInRange ==
    LET R == RangeF64(wrp.range)
    IN  /\ RatLe(R.MIN, wrp.value)
        /\ RatLt(wrp.value, R.MAX)
        /\ wrp_obs.ops = 0 =>
              \E k \in -4..4 :
                  RatLe(RatAbs(RatSub(RatSub(wrp.value, wrp_obs.v),
                                      RatMul(Rat(k, 1), RatSub(R.MAX, R.MIN)))),
                        EPSILON)

(***************************************************************************)
(* Properties of Part XII                                                  *)
(***************************************************************************)

\* the frequency has been sample_rate / N in every tick so far
ConstantPeriod(N) ==
    \A k \in 1..Len(clk_obs.frequencies) :
        clk_obs.frequencies[k] = Rat(GraphSampleRate, N)

\* the number of ticks among first..last in which the clock was true
Pulses(first, last) == Cardinality({k \in first..last : clk_obs.outputs[k]})

NeverTwiceInARow ==
    \A k \in 1..(Len(clk_obs.outputs) - 1) :
        ~(clk_obs.outputs[k] /\ clk_obs.outputs[k + 1])

\* C31 (as stated): with a constant frequency sample_rate / N, N >= 2, the
\* clock is true in exactly one tick of every N consecutive ticks and never
\* in two consecutive ticks.
C31_OncePerPeriod ==
    \A N \in ClockPeriods :
        ConstantPeriod(N) =>
            /\ \A first \in 1..(Len(clk_obs.outputs) - N + 1) :
                   Pulses(first, first + N - 1) = 1
            /\ NeverTwiceInARow

\* C31 (amended): with a constant frequency sample_rate / N, N >= 2, the
\* clock is true in exactly one tick of every N consecutive ticks that start
\* at the second tick or later, namely the tick in which the phase wraps to
\* 0, and never in two consecutive ticks; in the first tick it is true if
\* and only if N >= 3 (the phase 1/N is below 0.5 and nothing came before).
C31_OncePerPeriodAfterFirstTick ==
    \A N \in ClockPeriods :
        ConstantPeriod(N) =>
            /\ \A first \in 2..(Len(clk_obs.outputs) - N + 1) :
                   Pulses(first, first + N - 1) = 1
            /\ \A k \in 2..Len(clk_obs.outputs) :
                   clk_obs.outputs[k] <=> clk_obs.states[k] = Zero
            /\ Len(clk_obs.outputs) >= 1 => (clk_obs.outputs[1] <=> N >= 3)
            /\ NeverTwiceInARow

\* Period 3, seven ticks: true in ticks 1, 3 and 6.
C31_Witness ==
    /\ ConstantPeriod(3)
    /\ clk_obs.outputs = <<TRUE, FALSE, TRUE, FALSE, FALSE, TRUE, FALSE>>

(***************************************************************************)
(* Properties of Part VIII: the dsl functions                              *)
(***************************************************************************)

\* C32: the output of an oscillator built by square_oscillator is, in every
\* tick, -1 when the phase is below pulse_width_01 and +1 otherwise.
C32_SquareOscillatorIsSquare ==
    (osc_cfg.dsl = "square_oscillator" /\ osc_obs.ticks > 0) =>
        osc_obs.x = IF RatLt(osc[1], osc_cfg.pulse_width) THEN Rat(-1, 1)
                    ELSE One

(***************************************************************************)
(* Properties of Part XIII                                                 *)
(***************************************************************************)

\* C39: sample() of the moving-average filters terminates for every width,
\* 0 included (the pop loop always exits), and never divides by zero.
C39_MovingAverageTerminates ==
    /\ (maf.pc = "while") ~> (maf.pc = "idle")
    /\ [](maf_obs.divisor # Some(0))

====
